---- MODULE Spec2Model ----
(***************************************************************************)
(* A model of the safetensors codec of nlpodyssey/safetensors: the header  *)
(* validator (package header), the legacy metadata validator, the stream   *)
(* serializer, the eager reader and the lazy, seek-based reader.           *)
(*                                                                         *)
(* Go's int, uint, int64 and uint64 are 64 bits wide on the platforms the  *)
(* library targets.  The model keeps every width-dependent computation     *)
(* (bits.Mul, bits.Add64, the wrapping products, the MaxInt comparisons)   *)
(* but parameterises the width as WordBits, because the model checker's    *)
(* integers are 32 bits wide.                                              *)
(***************************************************************************)
EXTENDS Integers, Sequences, FiniteSets, TLC

VARIABLES
    vh,        \* header.Header handed to Header.Validate / legacy validate
    vres,      \* result of Header.Validate, or None
    lres,      \* result of the legacy Metadata.validate, or None
    tensors,   \* []Tensor handed to Serialize
    metadata,  \* map[string]string handed to Serialize
    w,         \* the io.Writer's content: the chunks written so far
    sres,      \* result of Serialize, or None
    rres,      \* result of ReadAll on the written bytes, or None
    rs,        \* the io.ReadSeeker's content (NewLazy, ReadAll)
    pos,       \* the seek cursor of rs
    st,        \* the LazyST returned by NewLazy, or None
    last,      \* the last lazy operation and what it returned
    eager      \* result of ReadAll / ReadAllRaw on a fresh reader of rs

vars == <<vh, vres, lres, tensors, metadata, w, sres, rres, rs, pos, st, last, eager>>

None == [kind |-> "none"]

----------------------------------------------------------------------------
(* Bounds of the model *)

WordBits == 12    \* modelled width of int / uint / int64 / uint64
MaxBegin == 2     \* largest data-offsets begin drawn for a validated header
MaxEnd == 5       \* largest data-offsets end drawn for a validated header

MaxInt == 2^(WordBits - 1) - 1
MaxUint == 2^WordBits - 1
WordMod == 2^WordBits

----------------------------------------------------------------------------
(* package dtype *)

Bool == 1
U8 == 2
I8 == 3
U16 == 4
I16 == 5
F16 == 6
BF16 == 7
U32 == 8
I32 == 9
F32 == 10
U64 == 11
I64 == 12
F64 == 13

dTypeToString == <<"BOOL", "U8", "I8", "U16", "I16", "F16", "BF16",
                   "U32", "I32", "F32", "U64", "I64", "F64">>

dTypeToSize == <<1, 1, 1, 2, 2, 2, 2, 4, 4, 4, 8, 8, 8>>

\* DType.Validate: TRUE when the value is a valid DType
DTypeValid(dt) == ~(dt = 0 \/ dt > F64)

\* DType.Size: the element size in bytes, or -1 for an invalid DType
DTypeSize(dt) == IF DTypeValid(dt) THEN dTypeToSize[dt] ELSE -1

----------------------------------------------------------------------------
(* math/bits *)

\* bits.Mul: the full product of two words as (hi, lo)
BitsMul(x, y) == [hi |-> (x * y) \div WordMod, lo |-> (x * y) % WordMod]

----------------------------------------------------------------------------
(* package header: Validate *)

\* The outcome of a validation: kind "ok" or the kind of the error, the
\* tensor the error names, and the two values the message carries.
Res(kind, tensor, x, y) == [kind |-> kind, tensor |-> tensor, expected |-> x, actual |-> y]
Ok == Res("ok", "", 0, 0)

\* DataOffsets.Less
Less(a, b) == a.Begin < b.Begin \/ (a.Begin = b.Begin /\ a.End < b.End)

\* TensorMap.TensorSlice: the values of the map in any iteration order
TensorSlice(tm) ==
    LET n == Cardinality(DOMAIN tm)
    IN {[i \in 1..n |-> tm[ks[i]]] :
            ks \in {f \in [1..n -> DOMAIN tm] : \A i, j \in 1..n : i # j => f[i] # f[j]}}

\* the slice left as the map's iteration produced it
UnsortedSlice(tm) == TensorSlice(tm)

\* sort.Sort(TensorSliceByDataOffsets{ts}): the sort is not stable, so every
\* arrangement that is ordered by Less is a possible outcome
SortByDataOffsets(tm) ==
    {ts \in TensorSlice(tm) : \A i, j \in 1..Len(ts) : i < j => ~Less(ts[j], ts[i])}

\* the TensorMap after a sort of a slice that shares its storage: the i-th
\* key holds what the sort moved to the i-th place
TensorMapAliased(tm, ts) ==
    LET n == Cardinality(DOMAIN tm)
        ks == CHOOSE f \in [1..n -> DOMAIN tm] : \A i, j \in 1..n : i # j => f[i] # f[j]
    IN [k \in DOMAIN tm |-> ts[CHOOSE i \in 1..n : ks[i] = k]]

\* the TensorMap after the slice ts made of it by TensorSlice was sorted:
\* TensorSlice appends the values to a slice of its own, the sort swaps the
\* elements of that slice, and the map keeps what it held
TensorMapAfterSort(tm, ts) == tm

RECURSIVE tensorSizeFrom(_, _, _)
tensorSizeFrom(s, i, size) ==
    IF i > Len(s) THEN Res("ok", "", size, 0)
    ELSE IF s[i] < 0 THEN Res("negative_shape", "", s[i], 0)
    ELSE LET m == BitsMul(size, s[i])
         IN IF m.hi # 0 THEN Res("elements_overflow", "", 0, 0)
            ELSE tensorSizeFrom(s, i + 1, m.lo)

\* tensorSizeFromShape: the element count in .expected, or an error
tensorSizeFromShape(s) == tensorSizeFrom(s, 1, 1)

\* byteSizeFromShape: the byte size in .expected, or an error
byteSizeFromShape(t) ==
    IF ~DTypeValid(t.DType) THEN Res("invalid_dtype", "", t.DType, 0)
    ELSE LET ts == tensorSizeFromShape(t.Shape)
         IN IF ts.kind # "ok" THEN ts
            ELSE LET m == BitsMul(ts.expected, DTypeSize(t.DType))
                 IN IF m.hi # 0 THEN Res("bytesize_overflow", "", 0, 0)
                    ELSE IF m.lo > MaxInt THEN Res("bytesize_too_large", "", m.lo, 0)
                    ELSE Res("ok", "", m.lo, 0)

\* validateTensor without the comparison of begin with the expected begin
validateTensorAnyBegin(t, expectedBegin) ==
    IF t.End < t.Begin THEN Res("end_before_begin", "", t.Begin, t.End)
    ELSE LET bs == byteSizeFromShape(t)
         IN IF bs.kind # "ok" THEN bs
            ELSE IF t.End - t.Begin # bs.expected
                 THEN Res("size_mismatch", "", bs.expected, t.End - t.Begin)
                 ELSE Ok

\* validateTensor rejecting only the byte ranges larger than the shape needs
validateTensorAtMost(t, expectedBegin) ==
    IF t.Begin # expectedBegin THEN Res("begin_mismatch", "", expectedBegin, t.Begin)
    ELSE IF t.End < t.Begin THEN Res("end_before_begin", "", t.Begin, t.End)
    ELSE LET bs == byteSizeFromShape(t)
         IN IF bs.kind # "ok" THEN bs
            ELSE IF t.End - t.Begin > bs.expected
                 THEN Res("size_mismatch", "", bs.expected, t.End - t.Begin)
                 ELSE Ok

validateTensor(t, expectedBegin) ==
    IF t.Begin # expectedBegin THEN Res("begin_mismatch", "", expectedBegin, t.Begin)
    ELSE IF t.End < t.Begin THEN Res("end_before_begin", "", t.Begin, t.End)
    ELSE LET bs == byteSizeFromShape(t)
         IN IF bs.kind # "ok" THEN bs
            ELSE IF t.End - t.Begin # bs.expected
                 THEN Res("size_mismatch", "", bs.expected, t.End - t.Begin)
                 ELSE Ok

RECURSIVE walkTensors(_, _, _)
walkTensors(ts, i, expectedBegin) ==
    IF i > Len(ts) THEN Ok
    ELSE LET r == validateTensor(ts[i], expectedBegin)
         IN IF r.kind # "ok" THEN [r EXCEPT !.tensor = ts[i].Name]
            ELSE walkTensors(ts, i + 1, ts[i].End)

\* validateTensorNames finding no mismatch
validateTensorNamesNone(tm) == {}

\* validateTensorNames: the error names whichever mismatching key the map
\* iteration meets first
validateTensorNames(tm) ==
    {Res("names_mismatch", k, k, tm[k].Name) : k \in {x \in DOMAIN tm : x # tm[x].Name}}

\* validateTensors: the set of results the call can return
validateTensors(tm) ==
    IF validateTensorNames(tm) # {} THEN validateTensorNames(tm)
    ELSE {walkTensors(ts, 1, 0) : ts \in SortByDataOffsets(tm)}

\* Header.Validate: the set of results the call can return
HeaderValidate(h) ==
    IF h.ByteBufferOffset < 0
    THEN {Res("negative_offset", "", h.ByteBufferOffset, 0)}
    ELSE validateTensors(h.Tensors)

\* Header.Validate with the header it leaves behind: the receiver is a
\* copy of the struct, and the map it shares is read, never assigned
HeaderValidateEffect(h) ==
    IF h.ByteBufferOffset < 0 \/ validateTensorNames(h.Tensors) # {}
    THEN {[res |-> r, h |-> h] : r \in HeaderValidate(h)}
    ELSE {[res |-> walkTensors(ts, 1, 0), h |-> [h EXCEPT !.Tensors = TensorMapAfterSort(@, ts)]] :
             ts \in SortByDataOffsets(h.Tensors)}

----------------------------------------------------------------------------
(* package safetensors (legacy API): DType, checkedMul, Metadata.validate *)

\* stringToDType / ParseDType: the legacy DType value of a dtype tag
stringToDType ==
    [s \in {"BOOL", "U8", "I8", "I16", "U16", "F16", "BF16", "I32", "U32", "F32", "F64", "I64", "U64"} |->
        CASE s = "BOOL" -> 0 [] s = "U8" -> 1 [] s = "I8" -> 2 [] s = "I16" -> 3
          [] s = "U16" -> 4 [] s = "F16" -> 5 [] s = "BF16" -> 6 [] s = "I32" -> 7
          [] s = "U32" -> 8 [] s = "F32" -> 9 [] s = "F64" -> 10 [] s = "I64" -> 11
          [] s = "U64" -> 12]

\* the legacy dTypeToSize table, indexed by the legacy DType value + 1
legacyDTypeToSize == <<1, 1, 1, 2, 2, 2, 2, 4, 4, 4, 8, 8, 8>>

\* the legacy DType.Size
LegacyDTypeSize(dt) == legacyDTypeToSize[dt + 1]

\* checkedMul that takes a wrapped product smaller than an operand as the
\* sign of overflow
checkedMulCompare(a, b) ==
    LET c == (a * b) % WordMod
    IN [val |-> c, overflow |-> (a > 1 /\ b > 1 /\ (c < a \/ c < b))]

\* checkedMul without the division test: the product silently wraps
checkedMulWrapping(a, b) == [val |-> (a * b) % WordMod, overflow |-> FALSE]

\* checkedMul: the wrapped product and whether the overflow error is returned
checkedMul(a, b) ==
    LET c == (a * b) % WordMod
    IN [val |-> c, overflow |-> (a > 1 /\ b > 1 /\ c \div a # b)]

RECURSIVE numElementsFrom(_, _, _)
numElementsFrom(shape, i, numElements) ==
    IF i > Len(shape) THEN [val |-> numElements, overflow |-> FALSE]
    ELSE LET m == checkedMul(numElements, shape[i])
         IN IF m.overflow THEN m ELSE numElementsFrom(shape, i + 1, m.val)

\* the name Metadata.validate reports for the tensor at (0-based) index i
legacyTensorName(m, i) ==
    IF \E n \in DOMAIN m.indexMap : m.indexMap[n] = i
    THEN CHOOSE n \in DOMAIN m.indexMap : m.indexMap[n] = i
    ELSE "no_tensor"

RECURSIVE metadataValidateFrom(_, _, _)
metadataValidateFrom(m, i, start) ==
    IF i > Len(m.tensors) THEN Res("ok", "", start, 0)
    ELSE LET info == m.tensors[i]
             s == info.DataOffsets[1]
             e == info.DataOffsets[2]
         IN IF s # start \/ e < s
            THEN Res("invalid_offset", legacyTensorName(m, i - 1), start, s)
            ELSE LET ne == numElementsFrom(info.Shape, 1, 1)
                 IN IF ne.overflow THEN Res("elements_overflow", "", 0, 0)
                    ELSE LET nb == checkedMul(ne.val, LegacyDTypeSize(info.DType))
                         IN IF nb.overflow THEN Res("bytesize_overflow", "", 0, 0)
                            ELSE IF e - s # nb.val THEN Res("size_mismatch", "", nb.val, e - s)
                            ELSE metadataValidateFrom(m, i + 1, e)

\* Metadata.validate: on success .expected is the end of the data buffer
MetadataValidate(m) == metadataValidateFrom(m, 1, 0)

\* newMetadata
newMetadata(md, named) ==
    [metadata |-> md,
     tensors |-> [i \in 1..Len(named) |-> named[i].TensorInfo],
     indexMap |-> [n \in {named[i].Name : i \in 1..Len(named)} |->
                     (CHOOSE i \in 1..Len(named) :
                         named[i].Name = n /\ \A j \in 1..Len(named) : named[j].Name = n => j <= i) - 1]]

\* Metadata.UnmarshalJSON of the JSON form of the tensors tm: the named
\* tensor infos sorted by data offsets (sort.Slice is not stable: every
\* ordered arrangement is possible), then newMetadata
UnmarshalMetadata(md, tm) ==
    {newMetadata(md, [i \in 1..Len(ts) |->
            [Name |-> ts[i].Name,
             TensorInfo |-> [DType |-> stringToDType[dTypeToString[ts[i].DType]],
                             Shape |-> ts[i].Shape,
                             DataOffsets |-> <<ts[i].Begin, ts[i].End>>]]]) :
        ts \in SortByDataOffsets(tm)}

----------------------------------------------------------------------------
(* Bytes, words and sequences *)

Space == 32

Min(a, b) == IF a < b THEN a ELSE b
Max(a, b) == IF a > b THEN a ELSE b

RECURSIVE Concat(_)
\* append(...): the concatenation of a sequence of byte sequences
Concat(ss) == IF ss = <<>> THEN <<>> ELSE Head(ss) \o Concat(Tail(ss))

\* Go's wrapping int arithmetic
WrapInt(x) == ((x + 2^(WordBits - 1)) % WordMod) - 2^(WordBits - 1)

\* binary.LittleEndian.PutUint64 / AppendUint64 (the modelled word is narrower
\* than 2^24, so the upper five bytes are zero)
PutUint64(n) == [i \in 1..8 |-> IF i <= 3 THEN (n \div 256^(i - 1)) % 256 ELSE 0]

\* binary.LittleEndian.Uint64: any value above the modelled word reads as MaxUint
Uint64(b) ==
    IF \E i \in 4..8 : b[i] # 0 THEN MaxUint
    ELSE Min(MaxUint, b[1] + 256 * b[2] + 65536 * b[3])

----------------------------------------------------------------------------
(* Typed tensor data: write*Data (tensor.go) and read*Data (read.go).      *)
(* An element is held as the sequence of its 16-bit limbs, lowest first:   *)
(* one limb for the 8- and 16-bit types (a signed integer for I8 and I16,  *)
(* 0 or 1 for a bool), two for the 32-bit and four for the 64-bit types.   *)
(* The float types are held as their bit patterns (math.Float32bits and    *)
(* the like are bijections).                                                *)

Bits16 == {U16, I16, F16, BF16}
Bits32 == {U32, I32, F32}
Bits64 == {U64, I64, F64}

\* the bytes of one element, as written by writeBoolData .. writeF64Data
writeElem(dt, x) ==
    CASE dt = Bool -> <<IF x[1] # 0 THEN 1 ELSE 0>>
      [] dt = U8 -> <<x[1]>>
      [] dt = I8 -> <<x[1] % 256>>
      [] dt \in Bits16 -> <<x[1] % 256, (x[1] \div 256) % 256>>
      [] dt \in Bits32 -> <<x[1] % 256, (x[1] \div 256) % 256, x[2] % 256, (x[2] \div 256) % 256>>
      [] dt \in Bits64 -> <<x[1] % 256, (x[1] \div 256) % 256, x[2] % 256, (x[2] \div 256) % 256,
                            x[3] % 256, (x[3] \div 256) % 256, x[4] % 256, (x[4] \div 256) % 256>>

\* readElem that takes the lowest bit of a byte as the bool
readElemLowBit(dt, b) ==
    CASE dt = Bool -> <<b[1] % 2>>
      [] dt = U8 -> <<b[1]>>
      [] dt = I8 -> <<IF b[1] >= 128 THEN b[1] - 256 ELSE b[1]>>
      [] dt \in {U16, F16, BF16} -> <<b[1] + 256 * b[2]>>
      [] dt = I16 -> <<IF b[1] + 256 * b[2] >= 32768 THEN b[1] + 256 * b[2] - 65536 ELSE b[1] + 256 * b[2]>>
      [] dt \in Bits32 -> <<b[1] + 256 * b[2], b[3] + 256 * b[4]>>
      [] dt \in Bits64 -> <<b[1] + 256 * b[2], b[3] + 256 * b[4], b[5] + 256 * b[6], b[7] + 256 * b[8]>>

\* one element, as rebuilt from its bytes by readBoolData .. readF64Data
readElem(dt, b) ==
    CASE dt = Bool -> <<IF b[1] # 0 THEN 1 ELSE 0>>
      [] dt = U8 -> <<b[1]>>
      [] dt = I8 -> <<IF b[1] >= 128 THEN b[1] - 256 ELSE b[1]>>
      [] dt \in {U16, F16, BF16} -> <<b[1] + 256 * b[2]>>
      [] dt = I16 -> <<IF b[1] + 256 * b[2] >= 32768 THEN b[1] + 256 * b[2] - 65536 ELSE b[1] + 256 * b[2]>>
      [] dt \in Bits32 -> <<b[1] + 256 * b[2], b[3] + 256 * b[4]>>
      [] dt \in Bits64 -> <<b[1] + 256 * b[2], b[3] + 256 * b[4], b[5] + 256 * b[6], b[7] + 256 * b[8]>>

\* a safetensors.Tensor; nilData marks a nil "data" interface value
Tensor(name, dt, shape, data, nilData) ==
    [name |-> name, dType |-> dt, shape |-> shape, data |-> data, nilData |-> nilData]

\* checkedShapeSize: the wrapping product of the shape, or an error
checkedShapeSize(shape) ==
    IF \E i \in 1..Len(shape) : shape[i] < 0 THEN [err |-> TRUE, size |-> 0]
    ELSE LET RECURSIVE prod(_, _)
             prod(i, size) == IF i > Len(shape) THEN size ELSE prod(i + 1, WrapInt(size * shape[i]))
         IN [err |-> FALSE, size |-> prod(1, 1)]

\* NewTensor: TRUE when the constructor returns the tensor without an error
\* (the data elements are of the dtype's Go type by construction)
NewTensor(name, dt, shape, data, nilData) ==
    /\ DTypeValid(dt)
    /\ ~checkedShapeSize(shape).err
    /\ checkedShapeSize(shape).size = (IF nilData THEN 0 ELSE Len(data))

\* Tensor.WriteTo: castSlice fails on a nil data interface; otherwise every
\* element is written and the number of bytes is returned
TensorWriteTo(t) ==
    IF t.nilData \/ ~DTypeValid(t.dType) THEN [err |-> TRUE, n |-> 0, bytes |-> <<>>]
    ELSE LET bytes == Concat([i \in 1..Len(t.data) |-> writeElem(t.dType, t.data[i])])
         IN [err |-> FALSE, n |-> Len(bytes), bytes |-> bytes]

\* t.WriteTo(w) of a SerializableTensor: a Tensor, or another implementation
\* of the interface, which writes the bytes wbytes and reports the count wn
\* and, when werr is set, an error
SerializableWriteTo(t) ==
    IF "wbytes" \in DOMAIN t THEN [err |-> t.werr, n |-> t.wn, bytes |-> t.wbytes]
    ELSE TensorWriteTo(t)

----------------------------------------------------------------------------
(* The JSON header.  A JSON object is a function from its keys to its      *)
(* values; a string value is [str |-> s], an array of numbers is           *)
(* [arr |-> <<...>>] (with nul set for a nil slice, encoded as null), an   *)
(* object is again a function.  JSONLen is the length of the compact text  *)
(* encoding/json emits.                                                     *)

metadataKey == "__metadata__"

JStr(s) == [str |-> s]
JArr(a) == [arr |-> a]
JNull == [nul |-> TRUE]

RECURSIVE Digits(_)
Digits(n) == IF n < 10 THEN 1 ELSE 1 + Digits(n \div 10)

RECURSIVE SumOver(_, _)
\* the sum of f[x] over the domain S
SumOver(f, S) == IF S = {} THEN 0 ELSE LET x == CHOOSE y \in S : TRUE IN f[x] + SumOver(f, S \ {x})

Commas(n) == IF n > 1 THEN n - 1 ELSE 0

JSONValueLen(v) ==
    IF "str" \in DOMAIN v THEN Len(v.str) + 2
    ELSE IF "nul" \in DOMAIN v THEN 4
    ELSE 2 + SumOver([i \in 1..Len(v.arr) |-> Digits(v.arr[i])], 1..Len(v.arr)) + Commas(Len(v.arr))

\* an object whose values are strings and arrays
JSONObjectLen(o) ==
    2 + SumOver([k \in DOMAIN o |-> Len(k) + 3 + JSONValueLen(o[k])], DOMAIN o) + Commas(Cardinality(DOMAIN o))

\* the header object: an object of objects
JSONLen(raw) ==
    2 + SumOver([k \in DOMAIN raw |-> Len(k) + 3 + JSONObjectLen(raw[k])], DOMAIN raw)
      + Commas(Cardinality(DOMAIN raw))

\* the JSON form of a header.Tensor (dtype tag, shape and data_offsets arrays)
TensorJSON(t) ==
    [dtype |-> JStr(dTypeToString[t.DType]), shape |-> JArr(t.Shape), data_offsets |-> JArr(<<t.Begin, t.End>>)]

MetadataJSON(md) == [k \in DOMAIN md |-> JStr(md[k])]

\* Header.MarshalJSON: the metadata is stored first, then every tensor
\* under its map key, so a tensor keyed "__metadata__" replaces the metadata
HeaderMarshalJSON(h) ==
    LET keys == DOMAIN h.Tensors \cup (IF DOMAIN h.Metadata # {} THEN {metadataKey} ELSE {})
    IN [k \in keys |-> IF k \in DOMAIN h.Tensors THEN TensorJSON(h.Tensors[k]) ELSE MetadataJSON(h.Metadata)]

----------------------------------------------------------------------------
(* The bytes of a stream: the 8-byte size prefix, the JSON text (held as   *)
(* the object it encodes and its length) and the bytes after the text.     *)

EmptyFile == [size |-> <<>>, json |-> None, jsonLen |-> 0, rest |-> <<>>]

FileLen(f) == Len(f.size) + f.jsonLen + Len(f.rest)

\* w.Write(b) after the JSON text
Write(f, b) == [f EXCEPT !.rest = @ \o b]

----------------------------------------------------------------------------
(* Serialize (serialize.go) *)

\* shapeToByteSize: a wrapping product
shapeToByteSize(shape, dt) ==
    LET RECURSIVE prod(_, _)
        prod(i, size) == IF i > Len(shape) THEN size ELSE prod(i + 1, WrapInt(size * shape[i]))
    IN WrapInt(prod(1, 1) * DTypeSize(dt))

\* newHeaderTensor
newHeaderTensor(tensor, beginOffset) ==
    [Name |-> tensor.name, DType |-> tensor.dType, Shape |-> tensor.shape,
     Begin |-> beginOffset, End |-> WrapInt(beginOffset + shapeToByteSize(tensor.shape, tensor.dType))]

RECURSIVE makeHeaderTensorSliceFrom(_, _, _)
makeHeaderTensorSliceFrom(ts, i, offset) ==
    IF i > Len(ts) THEN <<>>
    ELSE LET ht == newHeaderTensor(ts[i], offset)
         IN <<ht>> \o makeHeaderTensorSliceFrom(ts, i + 1, ht.End)

\* makeHeaderTensorSlice: the header tensors in input order
makeHeaderTensorSlice(ts) == makeHeaderTensorSliceFrom(ts, 1, 0)

\* makeHeaderTensorMap: an error on a duplicate name
makeHeaderTensorMap(hts) ==
    IF \E i, j \in 1..Len(hts) : i < j /\ hts[i].Name = hts[j].Name
    THEN [err |-> TRUE, tm |-> <<>>]
    ELSE [err |-> FALSE,
          tm |-> [n \in {hts[i].Name : i \in 1..Len(hts)} |->
                     hts[CHOOSE i \in 1..Len(hts) : hts[i].Name = n]]]

\* makeHeader
makeHeader(hts, md) ==
    LET m == makeHeaderTensorMap(hts)
    IN [err |-> m.err, head |-> [Tensors |-> m.tm, Metadata |-> md, ByteBufferOffset |-> 0]]

\* toAlign without the alignment: no padding at all
toAlignNone(jsonLen) == 0

\* the 0 to 7 bytes that align a JSON text of the given length
toAlign(jsonLen) == (8 - (jsonLen % 8)) % 8

\* writeHeader: size prefix, JSON text, padding spaces
writeHeader(head) ==
    LET raw == HeaderMarshalJSON(head)
        jsonLen == JSONLen(raw)
    IN [size |-> PutUint64(jsonLen + toAlign(jsonLen)), json |-> raw, jsonLen |-> jsonLen,
        rest |-> [i \in 1..toAlign(jsonLen) |-> Space]]

\* writeTensors that looks neither at the error nor at the count WriteTo
\* reports: every tensor is written
writeTensorsUnchecked(f, ts, hts, i) ==
    [kind |-> "ok", tensor |-> "",
     w |-> Write(f, Concat([j \in 1..(Len(ts) - i + 1) |-> SerializableWriteTo(ts[i + j - 1]).bytes]))]

RECURSIVE writeTensors(_, _, _, _)
\* writeTensors / writeTensor: stops at the first failing tensor, which the
\* error names
writeTensors(f, ts, hts, i) ==
    IF i > Len(ts) THEN [kind |-> "ok", tensor |-> "", w |-> f]
    ELSE LET r == SerializableWriteTo(ts[i])
         IN IF r.err THEN [kind |-> "write_failed", tensor |-> hts[i].Name, w |-> Write(f, r.bytes)]
            ELSE IF r.n # hts[i].End - hts[i].Begin
                 THEN [kind |-> "written_count", tensor |-> hts[i].Name, w |-> Write(f, r.bytes)]
                 ELSE writeTensors(Write(f, r.bytes), ts, hts, i + 1)

\* Serialize: the set of (error kind, bytes written) outcomes
Serialize(ts, md) ==
    LET hts == makeHeaderTensorSlice(ts)
        mh == makeHeader(hts, md)
    IN IF mh.err THEN {[kind |-> "duplicate_name", tensor |-> "", w |-> EmptyFile]}
       ELSE {IF v.kind # "ok" THEN [kind |-> "invalid_header", tensor |-> v.tensor, w |-> EmptyFile]
             ELSE writeTensors(writeHeader(mh.head), ts, hts, 1) : v \in HeaderValidate(mh.head)}

----------------------------------------------------------------------------
(* Legacy API: prepare, Serialize, SerializeToWriter (safetensors.go) *)

\* the legacy dTypeToString table, indexed by the legacy DType value + 1
legacyDTypeToString == <<"BOOL", "U8", "I8", "I16", "U16", "F16", "BF16",
                         "I32", "U32", "F32", "F64", "I64", "U64">>

\* a View: legacy DType, shape (nilShape: a nil slice), data bytes
View(dt, shape, nilShape, data) == [DType |-> dt, Shape |-> shape, nilShape |-> nilShape, Data |-> data]

\* the sort.Slice order of prepare: descending dtype, then ascending name;
\* names are compared through their rank in the sorted list of all names
viewLess(dataMap, rank, l, r) ==
    \/ dataMap[l].DType > dataMap[r].DType
    \/ (dataMap[l].DType = dataMap[r].DType /\ rank[l] < rank[r])

\* the names of dataMap in the order prepare gives them
prepareOrder(dataMap, rank) ==
    LET n == Cardinality(DOMAIN dataMap)
    IN CHOOSE f \in [1..n -> DOMAIN dataMap] :
          /\ \A i, j \in 1..n : i # j => f[i] # f[j]
          /\ \A i, j \in 1..n : i < j => ~viewLess(dataMap, rank, f[j], f[i])

RECURSIVE prepareInfos(_, _, _, _)
\* the NamedTensorInfo list of prepare: offsets accumulate DataLen()
prepareInfos(dataMap, order, i, offset) ==
    IF i > Len(order) THEN <<>>
    ELSE LET v == dataMap[order[i]]
             end == (offset + Len(v.Data)) % WordMod
         IN <<[Name |-> order[i],
               TensorInfo |-> [DType |-> v.DType, Shape |-> v.Shape, nilShape |-> v.nilShape,
                               DataOffsets |-> <<offset, end>>]]>>
            \o prepareInfos(dataMap, order, i + 1, end)

\* the JSON form of a TensorInfo (struct tags dtype, shape, data_offsets)
TensorInfoJSON(info) ==
    [dtype |-> JStr(legacyDTypeToString[info.DType + 1]),
     shape |-> IF info.nilShape THEN JNull ELSE JArr(info.Shape),
     data_offsets |-> JArr(info.DataOffsets)]

\* Metadata.MarshalJSON
MetadataMarshalJSON(m) ==
    LET keys == DOMAIN m.indexMap \cup (IF DOMAIN m.metadata # {} THEN {metadataKey} ELSE {})
    IN [k \in keys |-> IF k \in DOMAIN m.indexMap THEN TensorInfoJSON(m.tensors[m.indexMap[k] + 1])
                       ELSE MetadataJSON(m.metadata)]

\* the padding of prepare
extra(len) == (8 - (len % 8)) % 8

\* prepare followed by the writes of Serialize / SerializeToWriter: n, the
\* header bytes (JSON text and spaces), then the data of every view
legacySerialize(dataMap, rank, dataInfo) ==
    LET order == prepareOrder(dataMap, rank)
        infos == prepareInfos(dataMap, order, 1, 0)
        raw == MetadataMarshalJSON([metadata |-> dataInfo,
                   tensors |-> [i \in 1..Len(infos) |-> infos[i].TensorInfo],
                   indexMap |-> [n \in DOMAIN dataMap |-> (CHOOSE i \in 1..Len(order) : order[i] = n) - 1]])
        len == JSONLen(raw)
        spaces == [i \in 1..extra(len) |-> Space]
    IN [size |-> PutUint64(len + Len(spaces)), json |-> raw, jsonLen |-> len,
        rest |-> spaces \o Concat([i \in 1..Len(order) |-> dataMap[order[i]].Data])]

----------------------------------------------------------------------------
(* package header: Read *)

Whitespace == {32, 9, 10, 13}

\* the tag of a DType, parsed by DType.UnmarshalText
ParseTag(s) == IF \E dt \in 1..F64 : dTypeToString[dt] = s
               THEN CHOOSE dt \in 1..F64 : dTypeToString[dt] = s ELSE 0

\* convertNonNegInt over the items of an array
NonNegInts(a) == \A i \in 1..Len(a) : a[i] >= 0 /\ a[i] <= MaxInt

\* convertRawTensor that does not count the keys of the object
convertRawTensorAnyKeys(name, raw) ==
    IF "dtype" \notin DOMAIN raw THEN [err |-> "dtype_missing"]
    ELSE IF "shape" \notin DOMAIN raw THEN [err |-> "shape_missing"]
    ELSE IF "data_offsets" \notin DOMAIN raw THEN [err |-> "data_offsets_missing"]
    ELSE [err |-> "", t |-> [Name |-> name, DType |-> ParseTag(raw["dtype"].str), Shape |-> raw["shape"].arr,
                             Begin |-> raw["data_offsets"].arr[1], End |-> raw["data_offsets"].arr[2]]]

\* convertRawTensor: the header.Tensor or the first error met
convertRawTensor(name, raw) ==
    IF "dtype" \notin DOMAIN raw THEN [err |-> "dtype_missing"]
    ELSE IF "str" \notin DOMAIN raw["dtype"] THEN [err |-> "dtype_not_string"]
    ELSE IF ParseTag(raw["dtype"].str) = 0 THEN [err |-> "dtype_invalid"]
    ELSE IF "shape" \notin DOMAIN raw THEN [err |-> "shape_missing"]
    ELSE IF "arr" \notin DOMAIN raw["shape"] THEN [err |-> "shape_not_array"]
    ELSE IF ~NonNegInts(raw["shape"].arr) THEN [err |-> "shape_value"]
    ELSE IF "data_offsets" \notin DOMAIN raw THEN [err |-> "data_offsets_missing"]
    ELSE IF "arr" \notin DOMAIN raw["data_offsets"] THEN [err |-> "data_offsets_not_array"]
    ELSE IF Len(raw["data_offsets"].arr) # 2 THEN [err |-> "data_offsets_length"]
    ELSE IF ~NonNegInts(raw["data_offsets"].arr) THEN [err |-> "data_offsets_value"]
    ELSE IF Cardinality(DOMAIN raw) # 3 THEN [err |-> "unknown_keys"]
    ELSE [err |-> "", t |-> [Name |-> name, DType |-> ParseTag(raw["dtype"].str), Shape |-> raw["shape"].arr,
                             Begin |-> raw["data_offsets"].arr[1], End |-> raw["data_offsets"].arr[2]]]

\* convertRawMetadata: an error when some value is not a string
convertRawMetadata(raw) ==
    IF \E k \in DOMAIN raw : "str" \notin DOMAIN raw[k] THEN [err |-> "metadata_non_string"]
    ELSE [err |-> "", md |-> [k \in DOMAIN raw |-> raw[k].str]]

\* convertRawTensors: the map iteration reports whichever failing tensor it
\* meets first, and the error names that tensor
convertRawTensors(raw) ==
    IF \E k \in DOMAIN raw : convertRawTensor(k, raw[k]).err # ""
    THEN {[err |-> convertRawTensor(k, raw[k]).err, tensor |-> k] :
             k \in {x \in DOMAIN raw : convertRawTensor(x, raw[x]).err # ""}}
    ELSE {[err |-> "", tm |-> [k \in DOMAIN raw |-> convertRawTensor(k, raw[k]).t]]}

\* convertRawHeader: the set of results (a Header without ByteBufferOffset)
convertRawHeader(raw) ==
    LET m == IF metadataKey \in DOMAIN raw THEN convertRawMetadata(raw[metadataKey])
             ELSE [err |-> "", md |-> <<>>]
        others == [k \in DOMAIN raw \ {metadataKey} |-> raw[k]]
    IN IF m.err # "" THEN {[err |-> m.err, tensor |-> ""]}
       ELSE {IF c.err # "" THEN c ELSE [err |-> "", Tensors |-> c.tm, Metadata |-> m.md] :
                c \in convertRawTensors(others)}

\* readAndDecodeJSON that does not look at what follows the JSON value
readAndDecodeJSONFirstValue(f, size, have) ==
    IF f.json = None \/ have < f.jsonLen THEN "json_error" ELSE ""

\* readAndDecodeJSON over io.LimitedReader{N: size}: "have" header bytes can
\* be read.  The JSON value must be complete; what follows it within the
\* size must be white space up to the end of the input.
readAndDecodeJSON(f, size, have) ==
    IF f.json = None \/ have < f.jsonLen THEN "json_error"
    ELSE IF \E i \in 1..(have - f.jsonLen) : f.rest[i] \notin Whitespace THEN "unexpected_data"
    ELSE ""

\* header.Read on the bytes of f, of which only the first "readable" can be
\* read: the set of results, each with the number of bytes consumed
HeaderRead(f, readable) ==
    IF Min(Len(f.size), readable) < 8
    THEN {[err |-> "read_header_size", consumed |-> Min(FileLen(f), readable)]}
    ELSE LET size == Uint64(f.size)
             have == Min(size, Min(FileLen(f), readable) - 8)
         IN IF size < 2 THEN {[err |-> "size_too_small", consumed |-> 8]}
            ELSE IF size > MaxInt - 8 THEN {[err |-> "size_too_large", consumed |-> 8]}
            ELSE IF readAndDecodeJSON(f, size, have) # ""
                 THEN {[err |-> readAndDecodeJSON(f, size, have), consumed |-> 8 + have]}
            ELSE {IF c.err # "" THEN [err |-> c.err, tensor |-> c.tensor, consumed |-> 8 + have]
                  ELSE [err |-> "", consumed |-> 8 + have,
                        head |-> [Tensors |-> c.Tensors, Metadata |-> c.Metadata, ByteBufferOffset |-> 8 + size]] :
                     c \in convertRawHeader(f.json)}

----------------------------------------------------------------------------
(* Eager reading (read.go).  A reader is a file and an offset into it.     *)

\* readValidHeader that returns what header.Read gave it
readValidHeaderUnchecked(f, sizeLimit) ==
    HeaderRead(f, IF sizeLimit > 0 THEN sizeLimit ELSE FileLen(f))

\* readValidHeader: sizeLimit > 0 wraps the reader in io.LimitReader
readValidHeader(f, sizeLimit) ==
    LET readable == IF sizeLimit > 0 THEN sizeLimit ELSE FileLen(f)
    IN UNION {IF h.err # "" THEN {h}
              ELSE {IF v.kind # "ok" THEN [err |-> "invalid_header", consumed |-> h.consumed] ELSE h :
                       v \in HeaderValidate(h.head)} :
                 h \in HeaderRead(f, readable)}

\* io.ReadFull that starts one byte after the offset
ReadFullSkipping(f, o, k) ==
    LET got == Min(k, Max(0, FileLen(f) - o - 1))
        first == o - 8 - f.jsonLen + 2
    IN [ok |-> got = k, bytes |-> SubSeq(f.rest, first, first + got - 1), pos |-> o + 1 + got]

\* io.ReadFull of k bytes at offset o (o lies after the JSON text)
ReadFull(f, o, k) ==
    LET got == Min(k, Max(0, FileLen(f) - o))
        first == o - 8 - f.jsonLen + 1
    IN [ok |-> got = k, bytes |-> SubSeq(f.rest, first, first + got - 1), pos |-> o + got]

\* copyShape
copyShape(shape) == shape

\* readTensor that leaves the last byte of the range in the stream
readTensorShort(ht, f, o) ==
    LET byteSize == ht.End - ht.Begin
        typedSize == byteSize \div DTypeSize(ht.DType)
        r == ReadFull(f, o, byteSize)
        sz == DTypeSize(ht.DType)
    IN IF typedSize = 0 THEN [ok |-> TRUE, pos |-> o, t |-> Tensor(ht.Name, ht.DType, copyShape(ht.Shape), <<>>, FALSE)]
       ELSE IF ~r.ok THEN [ok |-> FALSE, pos |-> r.pos]
       ELSE [ok |-> TRUE, pos |-> r.pos - 1,
             t |-> Tensor(ht.Name, ht.DType, copyShape(ht.Shape),
                          [i \in 1..typedSize |-> readElem(ht.DType, SubSeq(r.bytes, (i - 1) * sz + 1, i * sz))],
                          FALSE)]

\* readTypedTensorData / readTensor: byteSize bytes are read through a
\* buffered io.LimitedReader and rebuilt element by element; nothing is read
\* when there is no element
readTensor(ht, f, o) ==
    LET byteSize == ht.End - ht.Begin
        typedSize == byteSize \div DTypeSize(ht.DType)
        r == ReadFull(f, o, byteSize)
        sz == DTypeSize(ht.DType)
    IN IF typedSize = 0 THEN [ok |-> TRUE, pos |-> o, t |-> Tensor(ht.Name, ht.DType, copyShape(ht.Shape), <<>>, FALSE)]
       ELSE IF ~r.ok THEN [ok |-> FALSE, pos |-> r.pos]
       ELSE [ok |-> TRUE, pos |-> r.pos,
             t |-> Tensor(ht.Name, ht.DType, copyShape(ht.Shape),
                          [i \in 1..typedSize |-> readElem(ht.DType, SubSeq(r.bytes, (i - 1) * sz + 1, i * sz))],
                          FALSE)]

\* a RawTensor: name, dtype, shape and raw bytes
RawTensor(name, dt, shape, data) == [name |-> name, dType |-> dt, shape |-> shape, data |-> data]

\* readRawTensor: nothing is read for an empty byte range
readRawTensor(ht, f, o) ==
    LET size == ht.End - ht.Begin
        r == ReadFull(f, o, size)
    IN IF size = 0 THEN [ok |-> TRUE, pos |-> o, t |-> RawTensor(ht.Name, ht.DType, copyShape(ht.Shape), <<>>)]
       ELSE IF ~r.ok THEN [ok |-> FALSE, pos |-> r.pos]
       ELSE [ok |-> TRUE, pos |-> r.pos, t |-> RawTensor(ht.Name, ht.DType, copyShape(ht.Shape), r.bytes)]

RECURSIVE readSlice(_, _, _, _, _)
\* the loop of readAllTensors / readAllRawTensors over the sorted slice; the
\* error of a failed read is wrapped with the name of the tensor, and no
\* tensor is returned with it
readSlice(raw, ts, f, o, i) ==
    IF i > Len(ts) THEN [kind |-> "ok", tensor |-> "", tensors |-> <<>>, pos |-> o]
    ELSE LET r == IF raw THEN readRawTensor(ts[i], f, o) ELSE readTensor(ts[i], f, o)
         IN IF ~r.ok THEN [kind |-> "read_failed", tensor |-> ts[i].Name, tensors |-> <<>>, pos |-> r.pos]
            ELSE LET more == readSlice(raw, ts, f, r.pos, i + 1)
                 IN IF more.kind # "ok" THEN more
                    ELSE [kind |-> "ok", tensor |-> "", tensors |-> <<r.t>> \o more.tensors, pos |-> more.pos]

\* readAllTensors: sort by data offsets, then read one after the other
readAllTensors(tm, f, o) == {readSlice(FALSE, ts, f, o, 1) : ts \in SortByDataOffsets(tm)}

\* readAllRawTensors
readAllRawTensors(tm, f, o) == {readSlice(TRUE, ts, f, o, 1) : ts \in SortByDataOffsets(tm)}

\* ReadAll / ReadAllRaw on a reader at the start of f
readAllOf(raw, f, headerSizeLimit) ==
    UNION {IF h.err # "" THEN {[kind |-> h.err, tensor |-> "", tensors |-> <<>>, metadata |-> <<>>, pos |-> h.consumed]}
           ELSE {[kind |-> r.kind, tensor |-> r.tensor, tensors |-> r.tensors, metadata |-> h.head.Metadata,
                  pos |-> r.pos] :
                    r \in IF raw THEN readAllRawTensors(h.head.Tensors, f, h.consumed)
                          ELSE readAllTensors(h.head.Tensors, f, h.consumed)} :
              h \in readValidHeader(f, headerSizeLimit)}

ReadAll(f, headerSizeLimit) == readAllOf(FALSE, f, headerSizeLimit)

ReadAllRaw(f, headerSizeLimit) == readAllOf(TRUE, f, headerSizeLimit)

----------------------------------------------------------------------------
(* Validation of bounded headers *)

ValNames == {"a", "b"}
ValOffsets == {[Begin |-> b, End |-> e] : b \in 0..MaxBegin, e \in 0..MaxEnd}
ValShapes == {<<>>, <<0>>, <<2>>, <<2, 2>>, <<-1>>, <<MaxInt, 2>>, <<MaxInt, MaxInt>>, <<2, MaxUint - 1>>}
ValShapesSmall == {<<>>, <<0>>, <<2>>, <<3>>}

HTensor(name, dt, shape, off) ==
    [Name |-> name, DType |-> dt, Shape |-> shape, Begin |-> off.Begin, End |-> off.End]

ValTensorsA == {HTensor(n, dt, s, o) : n \in ValNames, dt \in {0, U8, U16, I32}, s \in ValShapes, o \in ValOffsets}
ValTensorsB == {HTensor("b", U8, s, o) : s \in ValShapesSmall, o \in ValOffsets}

ValTensorMaps ==
    {<<>>} \cup {[k \in {"a"} |-> t] : t \in ValTensorsA}
           \cup {[k \in {"a", "b"} |-> IF k = "a" THEN ta ELSE tb] : ta \in ValTensorsA, tb \in ValTensorsB}

NoMetadata == <<>>

ValHeaders ==
    {[Tensors |-> tm, Metadata |-> NoMetadata, ByteBufferOffset |-> 16] : tm \in ValTensorMaps}
    \cup {[Tensors |-> [k \in {"a"} |-> t], Metadata |-> NoMetadata, ByteBufferOffset |-> -1] : t \in ValTensorsA}

\* every number of the header fits Go's int: it is a header.Header value
IntRepresentable(h) ==
    \A k \in DOMAIN h.Tensors : \A i \in 1..Len(h.Tensors[k].Shape) : h.Tensors[k].Shape[i] <= MaxInt

\* the header has a JSON form the legacy Metadata.UnmarshalJSON decodes
LegacyRepresentable(h) ==
    /\ h.ByteBufferOffset >= 0
    /\ \A k \in DOMAIN h.Tensors :
          /\ h.Tensors[k].Name = k
          /\ DTypeValid(h.Tensors[k].DType)
          /\ \A i \in 1..Len(h.Tensors[k].Shape) : h.Tensors[k].Shape[i] >= 0

Idle == [kind |-> "idle"]

InitValidate ==
    /\ vh \in ValHeaders
    /\ vres = None /\ lres = None
    /\ tensors = Idle /\ metadata = Idle /\ w = Idle /\ sres = Idle /\ rres = Idle
    /\ rs = Idle /\ pos = 0 /\ st = Idle /\ last = Idle /\ eager = Idle

\* err := h.Validate()
HeaderValidateOp ==
    /\ vres = None /\ lres = None
    /\ IntRepresentable(vh)
    /\ \E e \in HeaderValidateEffect(vh) : vres' = e.res /\ vh' = e.h
    /\ UNCHANGED <<lres, tensors, metadata, w, sres, rres, rs, pos, st, last, eager>>

\* json.Unmarshal(..., &metadata); bufferEnd, err := metadata.validate()
LegacyValidateOp ==
    /\ vres = None /\ lres = None
    /\ LegacyRepresentable(vh)
    /\ \E m \in UnmarshalMetadata(vh.Metadata, vh.Tensors) : lres' = MetadataValidate(m)
    /\ UNCHANGED <<vh, vres, tensors, metadata, w, sres, rres, rs, pos, st, last, eager>>

NextValidate == HeaderValidateOp \/ LegacyValidateOp

SpecValidate == InitValidate /\ [][NextValidate]_vars

----------------------------------------------------------------------------
(* Serialization of bounded tensor lists *)

MaxTensors == 2    \* largest number of tensors handed to Serialize

SerNames == {"a", "b", metadataKey}

\* the byte order of the names ('_' sorts before the lower-case letters)
NameRank == [n \in SerNames |-> IF n = metadataKey THEN 1 ELSE IF n = "a" THEN 2 ELSE 3]

\* two elements of every dtype
Sample(dt) ==
    CASE dt = Bool -> << <<1>>, <<0>> >>
      [] dt = U8 -> << <<200>>, <<7>> >>
      [] dt = I8 -> << <<-3>>, <<100>> >>
      [] dt \in {U16, F16, BF16} -> << <<513>>, <<65535>> >>
      [] dt = I16 -> << <<-2>>, <<258>> >>
      [] dt \in Bits32 -> << <<1, 32768>>, <<65535, 2>> >>
      [] dt \in Bits64 -> << <<1, 2, 3, 65535>>, <<256, 0, 0, 32768>> >>

\* shape and data of the tensors drawn: a scalar, a vector, an empty vector
\* with empty and with nil data, and a vector with too few elements
Forms(dt) ==
    {[shape |-> <<>>, data |-> <<Sample(dt)[1]>>, nilData |-> FALSE],
     [shape |-> <<2>>, data |-> Sample(dt), nilData |-> FALSE],
     [shape |-> <<0>>, data |-> <<>>, nilData |-> FALSE],
     [shape |-> <<0>>, data |-> <<>>, nilData |-> TRUE],
     [shape |-> <<2>>, data |-> <<Sample(dt)[2]>>, nilData |-> FALSE]}

\* the tensors NewTensor returns for the drawn properties
SerFirst ==
    UNION {{t \in {Tensor(n, dt, fm.shape, fm.data, fm.nilData) : n \in SerNames, fm \in Forms(dt)} :
                NewTensor(t.name, t.dType, t.shape, t.data, t.nilData)} : dt \in 1..F64}

SerOther == {t \in SerFirst : t.dType \in {U8, I16} /\ t.shape # <<>> /\ (t.nilData \/ t.data # <<>>)}

SerLists ==
    UNION {{ts \in [1..n -> SerFirst] : \A i \in 2..n : ts[i] \in SerOther} : n \in 0..MaxTensors}

SerMetadata == {<<>>, [k \in {"k"} |-> "v"], [k \in {"k", "note"} |-> IF k = "k" THEN "v" ELSE "abc"]}

UniqueNames(ts) == \A i, j \in 1..Len(ts) : i # j => ts[i].name # ts[j].name

\* the same tensors as views of the legacy API, keyed by name
LegacyData(ts, nilShapes) ==
    [n \in {ts[i].name : i \in 1..Len(ts)} |->
        LET t == ts[CHOOSE i \in 1..Len(ts) : ts[i].name = n]
        IN View(stringToDType[dTypeToString[t.dType]], t.shape, nilShapes /\ t.shape = <<>>,
                Concat([i \in 1..Len(t.data) |-> writeElem(t.dType, t.data[i])]))]

InitSerialize ==
    /\ tensors \in SerLists
    /\ metadata \in SerMetadata
    /\ w = EmptyFile /\ sres = None /\ rres = None
    /\ vh = Idle /\ vres = Idle /\ lres = Idle
    /\ rs = Idle /\ pos = 0 /\ st = Idle /\ last = Idle /\ eager = Idle

\* err := Serialize(w, tensors, metadata)
SerializeOp ==
    /\ sres = None
    /\ \E r \in Serialize(tensors, metadata) :
          /\ w' = r.w
          /\ sres' = [kind |-> r.kind, api |-> "stream", tensor |-> r.tensor]
    /\ UNCHANGED <<vh, vres, lres, tensors, metadata, rres, rs, pos, st, last, eager>>

\* buffer, err := Serialize(data, dataInfo) of the legacy API
LegacySerializeOp ==
    /\ sres = None /\ UniqueNames(tensors)
    /\ \E nilShapes \in BOOLEAN :
          w' = legacySerialize(LegacyData(tensors, nilShapes), NameRank, metadata)
    /\ sres' = [kind |-> "ok", api |-> "legacy", tensor |-> ""]
    /\ UNCHANGED <<vh, vres, lres, tensors, metadata, rres, rs, pos, st, last, eager>>

\* err := SerializeToWriter(data, dataInfo, w)
SerializeToWriterOp ==
    /\ sres = None /\ UniqueNames(tensors)
    /\ \E nilShapes \in BOOLEAN :
          w' = legacySerialize(LegacyData(tensors, nilShapes), NameRank, metadata)
    /\ sres' = [kind |-> "ok", api |-> "legacy_writer", tensor |-> ""]
    /\ UNCHANGED <<vh, vres, lres, tensors, metadata, rres, rs, pos, st, last, eager>>

\* st, err := ReadAll(bytes.NewReader(written), 0)
ReadAllOp ==
    /\ sres # None /\ rres = None
    /\ \E r \in ReadAll(w, 0) : rres' = [kind |-> r.kind, tensors |-> r.tensors, metadata |-> r.metadata]
    /\ UNCHANGED <<vh, vres, lres, tensors, metadata, w, sres, rs, pos, st, last, eager>>

NextSerialize == SerializeOp \/ LegacySerializeOp \/ SerializeToWriterOp \/ ReadAllOp

SpecSerialize == InitSerialize /\ [][NextSerialize]_vars

----------------------------------------------------------------------------
(* Serialization of other implementations of SerializableTensor and View:  *)
(* objects whose dtype, shape, written bytes and reported count are free.  *)

\* the byte an object of the given name writes
Mark(name) == IF name = "a" THEN 65 ELSE 66

\* an implementation of SerializableTensor (and of View, with Data() the
\* bytes wbytes): WriteTo writes wbytes and reports (wn, werr)
Serializable(name, dt, shape, k, wn, werr) ==
    [name |-> name, dType |-> dt, shape |-> shape, data |-> <<>>, nilData |-> FALSE,
     wbytes |-> [i \in 1..k |-> Mark(name)], wn |-> wn, werr |-> werr]

\* an invalid dtype, a scalar, a vector, an empty vector, a negative entry,
\* a product above MaxInt and a product that wraps to 0
CustomShapes == {<<>>, <<2>>, <<0>>, <<-1>>, <<MaxInt, 2>>, <<2^(WordBits - 2), 4>>}

\* what WriteTo reports after writing k bytes: k, one more than k, an error
Reports(k) == {[wn |-> k, werr |-> FALSE], [wn |-> k + 1, werr |-> FALSE], [wn |-> k, werr |-> TRUE]}

CustomFirst ==
    UNION {{Serializable(n, dt, s, k, r.wn, r.werr) :
                n \in {"a", "b"}, dt \in {0, U8, I16}, s \in CustomShapes, r \in Reports(k)} : k \in {0, 2, 4}}

CustomOther ==
    UNION {{Serializable(n, U8, s, k, r.wn, r.werr) :
                n \in {"a", "b"}, s \in {<<2>>, <<0>>}, r \in Reports(k)} : k \in {0, 2}}

CustomLists ==
    UNION {{ts \in [1..n -> CustomFirst] : \A i \in 2..n : ts[i] \in CustomOther} : n \in 0..MaxTensors}

\* the object as a View of the legacy API: its DType (13 is no DType of the
\* legacy package), its shape and, as Data(), the bytes it holds
ViewOf(t) ==
    View(IF DTypeValid(t.dType) THEN stringToDType[dTypeToString[t.dType]] ELSE 13, t.shape, FALSE, t.wbytes)

ViewsOf(ts) ==
    [n \in {ts[i].name : i \in 1..Len(ts)} |-> ViewOf(ts[CHOOSE i \in 1..Len(ts) : ts[i].name = n])]

\* the shapes of the legacy API are []uint64
Uint64Shapes(ts) == \A i \in 1..Len(ts) : \A j \in 1..Len(ts[i].shape) : ts[i].shape[j] >= 0

\* prepare and the writes that follow it: json.Marshal fails on a DType
\* that is none of the package (DType.MarshalJSON), before any write;
\* nothing else is looked at
legacySerializeOf(dataMap, rank, dataInfo) ==
    IF \E n \in DOMAIN dataMap : dataMap[n].DType >= Len(legacyDTypeToString)
    THEN [kind |-> "marshal_failed", w |-> EmptyFile]
    ELSE [kind |-> "ok", w |-> legacySerialize(dataMap, rank, dataInfo)]

InitInterface ==
    /\ tensors \in CustomLists
    /\ metadata \in {<<>>, [k \in {"k"} |-> "v"]}
    /\ w = EmptyFile /\ sres = None /\ rres = None
    /\ vh = Idle /\ vres = Idle /\ lres = Idle
    /\ rs = Idle /\ pos = 0 /\ st = Idle /\ last = Idle /\ eager = Idle

\* buffer, err := Serialize(data, dataInfo) of the legacy API, over views
InterfaceLegacySerializeOp ==
    /\ sres = None /\ UniqueNames(tensors) /\ Uint64Shapes(tensors)
    /\ LET r == legacySerializeOf(ViewsOf(tensors), NameRank, metadata)
       IN w' = r.w /\ sres' = [kind |-> r.kind, api |-> "legacy", tensor |-> ""]
    /\ UNCHANGED <<vh, vres, lres, tensors, metadata, rres, rs, pos, st, last, eager>>

\* err := SerializeToWriter(data, dataInfo, w), over views
InterfaceSerializeToWriterOp ==
    /\ sres = None /\ UniqueNames(tensors) /\ Uint64Shapes(tensors)
    /\ LET r == legacySerializeOf(ViewsOf(tensors), NameRank, metadata)
       IN w' = r.w /\ sres' = [kind |-> r.kind, api |-> "legacy_writer", tensor |-> ""]
    /\ UNCHANGED <<vh, vres, lres, tensors, metadata, rres, rs, pos, st, last, eager>>

NextInterface == SerializeOp \/ InterfaceLegacySerializeOp \/ InterfaceSerializeToWriterOp

SpecInterface == InitInterface /\ [][NextInterface]_vars

----------------------------------------------------------------------------
(* Lazy reading.  A stream rs is a file laid at the absolute position      *)
(* rs.base of an io.ReadSeeker; pos is the seek cursor.                    *)

\* checkedAddNonNegInt64 without the carry test: the sum silently wraps
checkedAddWrapping(a, b) == [err |-> "", sum |-> WrapInt(a + b)]

\* checkedAddNonNegInt64 (bits.Add64 gives the sum modulo the word and the carry)
checkedAddNonNegInt64(a, b) ==
    IF a < 0 \/ b < 0 THEN [err |-> "negative", sum |-> 0]
    ELSE IF a = 0 \/ b = 0 THEN [err |-> "", sum |-> a + b]
    ELSE LET sum == (a + b) % WordMod
             carry == (a + b) \div WordMod
         IN IF carry # 0 \/ sum > MaxInt THEN [err |-> "sum_overflow", sum |-> 0]
            ELSE [err |-> "", sum |-> sum]

\* the LazyST, or the error, NewLazy returns, with the cursor it leaves
LazySTOf(kind, err, tm, md, dataOffset, cursor) ==
    [kind |-> kind, err |-> err, tensors |-> tm, metadata |-> md, dataOffset |-> dataOffset, cursor |-> cursor]

\* NewLazy on the stream s with the cursor at initialOffset, the start of
\* the file: the set of outcomes
NewLazy(s, initialOffset, headerSizeLimit) ==
    {IF h.err # "" THEN LazySTOf("error", h.err, <<>>, <<>>, 0, initialOffset + h.consumed)
     ELSE LET off == checkedAddNonNegInt64(initialOffset, h.head.ByteBufferOffset)
          IN IF off.err # "" THEN LazySTOf("error", off.err, <<>>, <<>>, 0, initialOffset + h.consumed)
             ELSE LazySTOf("ok", "", h.head.Tensors, h.head.Metadata, off.sum, initialOffset + h.consumed) :
        h \in readValidHeader(s.file, headerSizeLimit)}

\* LazyST.LazyTensor for a name of the header
LazyTensor(lst, name) == [t |-> lst.tensors[name], dataOffset |-> lst.dataOffset]

\* what a call on a LazyST or a LazyTensor did: its outcome, the tensor its
\* error names (none unless set), the data it returned (or wrote), the
\* offsets it sought to, the number of bytes it read and the cursor it left
Did(kind, data, sought, read, cursor) ==
    [kind |-> kind, tensor |-> "", data |-> data, sought |-> sought, read |-> read, cursor |-> cursor]

\* seekTensorData that leaves the cursor where it is
seekTensorDataNoSeek(lt, cur) == [err |-> "", sought |-> <<>>, cursor |-> cur]

\* seekTensorData: Seek(dataOffset + begin, io.SeekStart)
seekTensorData(lt, cur) ==
    LET offset == checkedAddNonNegInt64(lt.dataOffset, lt.t.Begin)
    IN IF offset.err # "" THEN [err |-> "offset_overflow", sought |-> <<>>, cursor |-> cur]
       ELSE [err |-> "", sought |-> <<offset.sum>>, cursor |-> offset.sum]

\* LazyTensor.ReadData
LazyReadData(s, lt, cur) ==
    LET size == lt.t.End - lt.t.Begin
        sk == seekTensorData(lt, cur)
        r == ReadFull(s.file, sk.cursor - s.base, size)
    IN IF size = 0 THEN Did("ok", <<>>, <<>>, 0, cur)
       ELSE IF sk.err # "" THEN Did(sk.err, <<>>, sk.sought, 0, sk.cursor)
       ELSE IF ~r.ok THEN Did("read_failed", <<>>, sk.sought, Len(r.bytes), s.base + r.pos)
       ELSE Did("ok", r.bytes, sk.sought, Len(r.bytes), s.base + r.pos)

\* LazyTensor.RawTensor
LazyRawTensor(s, lt, cur) ==
    LET d == LazyReadData(s, lt, cur)
    IN IF d.kind # "ok" THEN d
       ELSE [d EXCEPT !.data = RawTensor(lt.t.Name, lt.t.DType, copyShape(lt.t.Shape), d.data)]

\* LazyTensor.Tensor: seeks whatever the size of the byte range is
LazyTensorTensor(s, lt, cur) ==
    LET sk == seekTensorData(lt, cur)
        r == readTensor(lt.t, s.file, sk.cursor - s.base)
    IN IF sk.err # "" THEN Did(sk.err, <<>>, sk.sought, 0, sk.cursor)
       ELSE IF ~r.ok THEN Did("read_failed", <<>>, sk.sought, r.pos - (sk.cursor - s.base), s.base + r.pos)
       ELSE Did("ok", r.t, sk.sought, r.pos - (sk.cursor - s.base), s.base + r.pos)

\* LazyTensor.WriteTo: io.CopyN copies what it can read; .data is what the
\* writer received
LazyWriteTo(s, lt, cur) ==
    LET size == lt.t.End - lt.t.Begin
        sk == seekTensorData(lt, cur)
        r == ReadFull(s.file, sk.cursor - s.base, size)
    IN IF size = 0 THEN Did("ok", <<>>, <<>>, 0, cur)
       ELSE IF sk.err # "" THEN Did(sk.err, <<>>, sk.sought, 0, sk.cursor)
       ELSE Did(IF r.ok THEN "ok" ELSE "copy_failed", r.bytes, sk.sought, Len(r.bytes), s.base + r.pos)

\* LazyST.AllTensors / AllRawTensors: one Seek to the byte buffer, then the
\* sequential read of the eager reader
LazyAll(raw, s, lst) ==
    {[Did(r.kind, r.tensors, <<lst.dataOffset>>, r.pos - (lst.dataOffset - s.base), s.base + r.pos)
         EXCEPT !.tensor = r.tensor] :
        r \in IF raw THEN readAllRawTensors(lst.tensors, s.file, lst.dataOffset - s.base)
              ELSE readAllTensors(lst.tensors, s.file, lst.dataOffset - s.base)}

----------------------------------------------------------------------------
(* Lazy and eager reading of bounded streams *)

MaxBase == 5    \* largest ordinary position at which a file starts in its stream
MaxCut == 1     \* largest number of bytes missing at the end of a stream

\* the i-th byte of a tensor buffer
DataByte(i) == (37 * i + 11) % 256

LazyLists ==
    {<<>>,
     <<Tensor("a", U8, <<2>>, <<>>, FALSE)>>,
     <<Tensor("a", U16, <<2>>, <<>>, FALSE), Tensor("z", U8, <<0>>, <<>>, FALSE), Tensor("b", I8, <<1>>, <<>>, FALSE)>>,
     <<Tensor("e", Bool, <<0>>, <<>>, FALSE), Tensor("a", U32, <<1>>, <<>>, FALSE)>>,
     <<Tensor("b", Bool, <<2>>, <<>>, FALSE), Tensor("a", I16, <<>>, <<>>, FALSE)>>}

\* the file whose header describes the tensors ts, followed by its buffer
LazyFile(ts, md) ==
    LET hts == makeHeaderTensorSlice(ts)
        f == writeHeader(makeHeader(hts, md).head)
    IN Write(f, [i \in 1..(IF hts = <<>> THEN 0 ELSE hts[Len(hts)].End) |-> DataByte(i)])

\* f without its last cut bytes
Cut(f, cut) == [f EXCEPT !.rest = SubSeq(@, 1, Len(@) - cut)]

\* ordinary positions, and the two around the largest position at which the
\* byte buffer of f still starts at an int64 offset
LazyBases(f) == {0, MaxBase, MaxInt - FileLen(f) + 1} \cup {MaxInt - (8 + Uint64(f.size)) + d : d \in {-1, 1}}

LazyStreams ==
    UNION {{[base |-> p, file |-> Cut(LazyFile(ts, md), cut)] :
                p \in LazyBases(LazyFile(ts, md)), cut \in 0..Min(MaxCut, Len(LazyFile(ts, md).rest))} :
              ts \in LazyLists, md \in {<<>>, [k \in {"k"} |-> "v"]}}

LazyLimits == {0, 16}

NoEager == [typed |-> None, raw |-> None]

InitLazy ==
    /\ rs \in LazyStreams
    /\ pos = rs.base
    /\ st = None /\ last = None /\ eager = NoEager
    /\ vh = Idle /\ vres = Idle /\ lres = Idle
    /\ tensors = Idle /\ metadata = Idle /\ w = Idle /\ sres = Idle /\ rres = Idle

Called(op, name, from, d) ==
    [op |-> op, name |-> name, from |-> from, kind |-> d.kind, tensor |-> d.tensor, data |-> d.data,
     sought |-> d.sought, read |-> d.read]

Opened == st # None /\ st.kind = "ok"

\* st, err := NewLazy(rs, headerSizeLimit)
NewLazyOp ==
    /\ st = None
    /\ \E limit \in LazyLimits : \E l \in NewLazy(rs, pos, limit) :
          /\ st' = [kind |-> l.kind, err |-> l.err, tensors |-> l.tensors, metadata |-> l.metadata,
                    dataOffset |-> l.dataOffset]
          /\ pos' = l.cursor
          /\ last' = Called("NewLazy", "", pos, Did(l.kind, <<>>, <<>>, l.cursor - pos, l.cursor))
    /\ UNCHANGED <<vh, vres, lres, tensors, metadata, w, sres, rres, rs, eager>>

\* the frame of a call on an opened LazyST
LazyFrame(op, name, d) ==
    /\ pos' = d.cursor
    /\ last' = Called(op, name, pos, d)
    /\ UNCHANGED <<vh, vres, lres, tensors, metadata, w, sres, rres, rs, st, eager>>

\* lt, _ := st.LazyTensor(name); data, err := lt.ReadData()
ReadDataOp ==
    /\ Opened
    /\ \E name \in DOMAIN st.tensors :
          LazyFrame("ReadData", name, LazyReadData(rs, LazyTensor(st, name), pos))

\* lt, _ := st.LazyTensor(name); t, err := lt.RawTensor()
RawTensorOp ==
    /\ Opened
    /\ \E name \in DOMAIN st.tensors :
          LazyFrame("RawTensor", name, LazyRawTensor(rs, LazyTensor(st, name), pos))

\* lt, _ := st.LazyTensor(name); t, err := lt.Tensor()
TensorOp ==
    /\ Opened
    /\ \E name \in DOMAIN st.tensors :
          LazyFrame("Tensor", name, LazyTensorTensor(rs, LazyTensor(st, name), pos))

\* lt, _ := st.LazyTensor(name); n, err := lt.WriteTo(w)
WriteToOp ==
    /\ Opened
    /\ \E name \in DOMAIN st.tensors :
          LazyFrame("WriteTo", name, LazyWriteTo(rs, LazyTensor(st, name), pos))

\* ts, err := st.AllTensors()
AllTensorsOp ==
    /\ Opened
    /\ \E d \in LazyAll(FALSE, rs, st) : LazyFrame("AllTensors", "", d)

\* ts, err := st.AllRawTensors()
AllRawTensorsOp ==
    /\ Opened
    /\ \E d \in LazyAll(TRUE, rs, st) : LazyFrame("AllRawTensors", "", d)

\* ReadAll(r, 0) on a fresh reader of the same file
EagerReadAllOp ==
    /\ eager.typed = None
    /\ \E r \in ReadAll(rs.file, 0) :
          eager' = [eager EXCEPT !.typed = [kind |-> r.kind, tensor |-> r.tensor, tensors |-> r.tensors,
                                           metadata |-> r.metadata, read |-> r.pos]]
    /\ UNCHANGED <<vh, vres, lres, tensors, metadata, w, sres, rres, rs, pos, st, last>>

\* ReadAllRaw(r, 0) on a fresh reader of the same file
EagerReadAllRawOp ==
    /\ eager.raw = None
    /\ \E r \in ReadAllRaw(rs.file, 0) :
          eager' = [eager EXCEPT !.raw = [kind |-> r.kind, tensor |-> r.tensor, tensors |-> r.tensors,
                                         metadata |-> r.metadata, read |-> r.pos]]
    /\ UNCHANGED <<vh, vres, lres, tensors, metadata, w, sres, rres, rs, pos, st, last>>

NextLazy ==
    \/ NewLazyOp \/ ReadDataOp \/ RawTensorOp \/ TensorOp \/ WriteToOp
    \/ AllTensorsOp \/ AllRawTensorsOp \/ EagerReadAllOp \/ EagerReadAllRawOp

SpecLazy == InitLazy /\ [][NextLazy]_vars

----------------------------------------------------------------------------
(* What the specification says of a header, stated without the validator *)

RECURSIVE TrueProduct(_)
\* the product of the shape entries as a mathematical integer (empty: 1)
TrueProduct(s) == IF s = <<>> THEN 1 ELSE Head(s) * TrueProduct(Tail(s))

\* some running product of the shape, taken left to right, exceeds MaxUint
PrefixOverflows(s) == \E n \in 1..Len(s) : TrueProduct(SubSeq(s, 1, n)) > MaxUint

TrueByteSize(t) == TrueProduct(t.Shape) * dTypeToSize[t.DType]

NamesConsistent(tm) == \A k \in DOMAIN tm : tm[k].Name = k

\* the tensors can be arranged in a chain that starts at 0, in which each
\* begin is the previous end and no end lies below its begin
Chain(tm) ==
    LET n == Cardinality(DOMAIN tm)
    IN \E f \in [1..n -> DOMAIN tm] :
          /\ \A i, j \in 1..n : i # j => f[i] # f[j]
          /\ \A i \in 1..n :
                /\ tm[f[i]].Begin = (IF i = 1 THEN 0 ELSE tm[f[i - 1]].End)
                /\ tm[f[i]].End >= tm[f[i]].Begin

\* dtype and shape of every tensor are valid and the sizes fit the int type
ShapesSound(tm) ==
    \A k \in DOMAIN tm :
        /\ DTypeValid(tm[k].DType)
        /\ \A i \in 1..Len(tm[k].Shape) : tm[k].Shape[i] >= 0
        /\ ~PrefixOverflows(tm[k].Shape)
        /\ TrueByteSize(tm[k]) <= MaxInt

\* a header whose only possible defect is in its data offsets
OnlyOffsetsInDoubt(h) ==
    /\ h.ByteBufferOffset >= 0
    /\ NamesConsistent(h.Tensors)
    /\ ShapesSound(h.Tensors)
    /\ \A k \in DOMAIN h.Tensors :
          h.Tensors[k].End >= h.Tensors[k].Begin
              => h.Tensors[k].End - h.Tensors[k].Begin = TrueByteSize(h.Tensors[k])

\* a header whose only possible defect is a byte range of the wrong size
OnlySizesInDoubt(h) ==
    /\ h.ByteBufferOffset >= 0
    /\ NamesConsistent(h.Tensors)
    /\ ShapesSound(h.Tensors)
    /\ Chain(h.Tensors)

Validated == vres # None
LegacyValidated == lres # None

----------------------------------------------------------------------------
(* C1 *)

Serialized == sres # None /\ sres.api = "stream"

SameTensor(a, b) == a.name = b.name /\ a.dType = b.dType /\ a.shape = b.shape /\ a.data = b.data

SameMetadata(a, b) == DOMAIN a = DOMAIN b /\ \A k \in DOMAIN a : a[k] = b[k]

\* ReadAll succeeded and returned the metadata and one tensor per input tensor
RoundTrip ==
    /\ rres.kind = "ok"
    /\ SameMetadata(rres.metadata, metadata)
    /\ Len(rres.tensors) = Len(tensors)
    /\ \A i \in 1..Len(tensors) : \E j \in 1..Len(rres.tensors) : SameTensor(tensors[i], rres.tensors[j])

\* C1 as stated: for any list of valid tensors with unique names and any
\* string-to-string metadata, Serialize succeeds and ReadAll applied to the
\* bytes it wrote succeeds and returns the same metadata and exactly one
\* tensor per input tensor, equal in name, dtype, shape and data.
C1_RoundTrip ==
    (Serialized /\ UniqueNames(tensors)) =>
        /\ sres.kind = "ok"
        /\ rres # None => RoundTrip

\* C1, what the code does guarantee: the round trip of tensors none of which
\* is named "__metadata__" and none of which holds a nil data value.
C1_RoundTripOrdinary ==
    (Serialized /\ UniqueNames(tensors)
        /\ \A i \in 1..Len(tensors) : tensors[i].name # metadataKey /\ ~tensors[i].nilData) =>
        /\ sres.kind = "ok"
        /\ rres # None => RoundTrip

\* C1: two tensors of different dtypes and a metadata map went through
\* Serialize and ReadAll
C1_Witness ==
    /\ Serialized /\ sres.kind = "ok" /\ rres # None /\ rres.kind = "ok"
    /\ Len(tensors) = 2 /\ tensors[1].dType = F64 /\ tensors[1].shape = <<2>>
    /\ DOMAIN metadata # {}

----------------------------------------------------------------------------
(* C6 *)

\* the end of the tensor buffer the header describes
BufferLen(json) ==
    LET ends == {json[k]["data_offsets"].arr[2] : k \in {x \in DOMAIN json : "data_offsets" \in DOMAIN json[x]}}
    IN IF ends = {} THEN 0 ELSE CHOOSE e \in ends : \A x \in ends : x <= e

\* C6: for every output of serialization (stream Serialize, legacy Serialize
\* and SerializeToWriter) the 8-byte length prefix N is a multiple of 8 and
\* equals the number of header bytes that follow: the JSON text and then 0 to
\* 7 bytes that are all ASCII space, so that the tensor buffer starts at a
\* multiple of 8.
C6_Alignment ==
    (sres # None /\ w # EmptyFile) =>
        LET N == Uint64(w.size)
            pad == N - w.jsonLen
        IN /\ Len(w.size) = 8
           /\ N % 8 = 0
           /\ pad \in 0..7
           /\ Len(w.rest) >= pad
           /\ \A i \in 1..pad : w.rest[i] = Space
           /\ (8 + N) % 8 = 0
           /\ sres.kind = "ok" => Len(w.rest) - pad = BufferLen(w.json)

\* C6: SerializeToWriter wrote a header that needed padding before the data
C6_Witness ==
    /\ sres # None /\ sres.api = "legacy_writer"
    /\ Uint64(w.size) - w.jsonLen > 0
    /\ BufferLen(w.json) > 0

----------------------------------------------------------------------------
(* C2 *)

\* C2 as stated: Header.Validate accepts a header only if its tensors,
\* sorted by (begin, end), start at 0 and each begin equals the previous end
\* with end >= begin; otherwise it returns an offset-mismatch error carrying
\* the expected and the actual begin.
C2_Original ==
    (Validated /\ OnlyOffsetsInDoubt(vh)) =>
        IF Chain(vh.Tensors) THEN vres.kind = "ok" ELSE vres.kind = "begin_mismatch"

\* C2, amended: Header.Validate accepts a header only if its tensors form a
\* chain from 0 (each begin is the previous end, end >= begin).  A header
\* whose only defect is in its offsets is rejected with an offsets error: a
\* begin that differs from the expected one gives the begin-mismatch error
\* carrying the expected and the actual begin, and an end below its begin
\* gives the separate "end >= begin" error carrying the begin and the end.
\* A header whose only tensor has data_offsets [1, 5] fails with
\* "expected data-offsets begin 0, actual 1".
C2_Contiguity ==
    Validated =>
        /\ vres.kind = "ok" => Chain(vh.Tensors)
        /\ OnlyOffsetsInDoubt(vh) =>
              IF Chain(vh.Tensors) THEN vres.kind = "ok"
              ELSE vres.kind \in {"begin_mismatch", "end_before_begin"}
        /\ vres.kind = "begin_mismatch" =>
              /\ vres.actual = vh.Tensors[vres.tensor].Begin
              /\ vres.actual # vres.expected
              /\ \/ vres.expected = 0
                 \/ \E k \in DOMAIN vh.Tensors : k # vres.tensor /\ vh.Tensors[k].End = vres.expected
        /\ vres.kind = "end_before_begin" =>
              /\ vres.expected = vh.Tensors[vres.tensor].Begin
              /\ vres.actual = vh.Tensors[vres.tensor].End
              /\ vres.actual < vres.expected
        /\ (DOMAIN vh.Tensors = {"a"} /\ vh.Tensors["a"].Name = "a" /\ vh.ByteBufferOffset >= 0
                /\ vh.Tensors["a"].Begin = 1 /\ vh.Tensors["a"].End = 5)
              => vres = Res("begin_mismatch", "a", 0, 1)

\* C2 witness: the header whose only tensor is U8 [2,2] at [1, 5] was validated
C2_Witness ==
    /\ Validated
    /\ DOMAIN vh.Tensors = {"a"}
    /\ vh.Tensors["a"] = HTensor("a", U8, <<2, 2>>, [Begin |-> 1, End |-> 5])
    /\ vres.kind = "begin_mismatch"

----------------------------------------------------------------------------
(* C3 *)

\* C3: header validation (Header.Validate and the legacy Metadata.validate)
\* accepts a tensor only if end - begin equals the product of the shape
\* entries times the dtype size (an empty shape counting as one element); a
\* larger or a smaller byte range is rejected with a size-mismatch error.
C3_SizeMatches ==
    /\ Validated =>
          /\ vres.kind = "ok" =>
                \A k \in DOMAIN vh.Tensors :
                    vh.Tensors[k].End - vh.Tensors[k].Begin = TrueByteSize(vh.Tensors[k])
          /\ (OnlySizesInDoubt(vh)
                /\ \E k \in DOMAIN vh.Tensors :
                      vh.Tensors[k].End - vh.Tensors[k].Begin # TrueByteSize(vh.Tensors[k]))
                => /\ vres.kind = "size_mismatch"
                   /\ vres.expected = TrueByteSize(vh.Tensors[vres.tensor])
                   /\ vres.actual = vh.Tensors[vres.tensor].End - vh.Tensors[vres.tensor].Begin
                   /\ vres.actual # vres.expected
    /\ LegacyValidated =>
          /\ lres.kind = "ok" =>
                \A k \in DOMAIN vh.Tensors :
                    vh.Tensors[k].End - vh.Tensors[k].Begin = TrueByteSize(vh.Tensors[k])
          /\ (OnlySizesInDoubt(vh)
                /\ \E k \in DOMAIN vh.Tensors :
                      vh.Tensors[k].End - vh.Tensors[k].Begin # TrueByteSize(vh.Tensors[k]))
                => /\ lres.kind = "size_mismatch"
                   /\ lres.actual # lres.expected

\* C3 witness: a scalar (empty shape) was accepted with a range of one
\* element by Header.Validate
C3_Witness ==
    /\ Validated /\ vres.kind = "ok"
    /\ \E k \in DOMAIN vh.Tensors :
          vh.Tensors[k].Shape = <<>> /\ vh.Tensors[k].End - vh.Tensors[k].Begin = 4

----------------------------------------------------------------------------
(* C4 *)

OverflowKinds == {"elements_overflow", "bytesize_overflow", "bytesize_too_large"}

\* C4: header validation never accepts a tensor whose shape product, or
\* shape product times dtype size, exceeds the integer range: it returns a
\* distinct overflow error that tells the element-count computation from the
\* byte-size computation.  Shape [2, MaxUint - 1] with dtype I32 fails with
\* the overflow error of the element-count computation.
C4_Overflow ==
    /\ Validated =>
          /\ vres.kind = "ok" =>
                \A k \in DOMAIN vh.Tensors :
                    ~PrefixOverflows(vh.Tensors[k].Shape) /\ TrueByteSize(vh.Tensors[k]) <= MaxInt
          /\ vres.kind = "elements_overflow" => PrefixOverflows(vh.Tensors[vres.tensor].Shape)
          /\ vres.kind \in {"bytesize_overflow", "bytesize_too_large"} =>
                /\ ~PrefixOverflows(vh.Tensors[vres.tensor].Shape)
                /\ TrueByteSize(vh.Tensors[vres.tensor]) > MaxInt
          /\ (vh.ByteBufferOffset >= 0 /\ DOMAIN vh.Tensors = {"a"} /\ vh.Tensors["a"].Name = "a"
                /\ vh.Tensors["a"].Begin = 0 /\ DTypeValid(vh.Tensors["a"].DType)
                /\ (\A i \in 1..Len(vh.Tensors["a"].Shape) : vh.Tensors["a"].Shape[i] >= 0)
                /\ (PrefixOverflows(vh.Tensors["a"].Shape) \/ TrueByteSize(vh.Tensors["a"]) > MaxInt))
                => vres.kind \in OverflowKinds
    /\ LegacyValidated =>
          /\ lres.kind = "ok" =>
                \A k \in DOMAIN vh.Tensors :
                    ~PrefixOverflows(vh.Tensors[k].Shape) /\ TrueByteSize(vh.Tensors[k]) <= MaxUint
          /\ lres.kind = "elements_overflow" =>
                \E k \in DOMAIN vh.Tensors : PrefixOverflows(vh.Tensors[k].Shape)
          /\ lres.kind = "bytesize_overflow" =>
                \E k \in DOMAIN vh.Tensors :
                    ~PrefixOverflows(vh.Tensors[k].Shape) /\ TrueByteSize(vh.Tensors[k]) > MaxUint
          /\ (DOMAIN vh.Tensors = {"a"} /\ vh.Tensors["a"].Begin = 0
                /\ vh.Tensors["a"].Shape = <<2, MaxUint - 1>> /\ vh.Tensors["a"].DType = I32)
                => lres.kind = "elements_overflow"

\* C4 witness: the legacy validator met shape [2, MaxUint - 1] with dtype I32
C4_Witness ==
    /\ LegacyValidated
    /\ DOMAIN vh.Tensors = {"a"}
    /\ vh.Tensors["a"].Shape = <<2, MaxUint - 1>> /\ vh.Tensors["a"].DType = I32
    /\ lres.kind = "elements_overflow"

----------------------------------------------------------------------------
(* C5 *)

\* C5 as stated: Header.Validate rejects every header in which some
\* TensorMap key differs from the Name of its tensor with the "tensor names
\* mismatch" error, whatever the offsets and shapes are.
C5_Original ==
    (Validated /\ ~NamesConsistent(vh.Tensors)) => vres.kind = "names_mismatch"

\* C5, amended: Header.Validate rejects every header with a non-negative
\* ByteBufferOffset in which some TensorMap key differs from the Name of its
\* tensor with the "tensor names mismatch" error carrying that key and that
\* name, whatever the offsets and shapes are.
C5_NamesMismatch ==
    /\ (Validated /\ vh.ByteBufferOffset >= 0 /\ ~NamesConsistent(vh.Tensors)) =>
          /\ vres.kind = "names_mismatch"
          /\ vres.tensor \in DOMAIN vh.Tensors
          /\ vres.actual = vh.Tensors[vres.tensor].Name
          /\ vres.actual # vres.tensor
    /\ (Validated /\ vres.kind = "names_mismatch") => ~NamesConsistent(vh.Tensors)

\* C5 witness: a header with a mismatching name and broken offsets and shape
\* was validated
C5_Witness ==
    /\ Validated /\ vres.kind = "names_mismatch"
    /\ \E k \in DOMAIN vh.Tensors :
          /\ vh.Tensors[k].Name # k
          /\ vh.Tensors[k].Begin # 0
          /\ vh.Tensors[k].Shape = <<-1>>

----------------------------------------------------------------------------
(* What the specification says of a stream, stated without the readers *)

HandleOps == {"ReadData", "RawTensor", "Tensor", "WriteTo"}

\* the length N the size prefix of the stream announces
PrefixN == Uint64(rs.file.size)

\* the absolute position of the byte buffer
BufferStart == rs.base + 8 + PrefixN

\* every byte of the stream lies at a position an int64 offset can name
Addressable == rs.base + FileLen(rs.file) <= MaxInt

\* the stream holds the n bytes at the absolute position abs
Present(abs, n) == abs - rs.base + n <= FileLen(rs.file)

\* the n bytes of the stream at the absolute position abs
StreamBytes(abs, n) ==
    [i \in 1..n |-> rs.file.rest[abs - rs.base - 8 - rs.file.jsonLen + i]]

\* the bytes [begin, end) of the tensor t of the opened header
OwnBytes(t) == StreamBytes(BufferStart + t.Begin, t.End - t.Begin)

\* the elements a sequence of bytes encodes, each of width bytes, little-endian
\* words of 16 bits, sign-extended for I8 and I16, 0 or 1 for a bool
ElementsOf(dt, bytes) ==
    LET width == dTypeToSize[dt]
        byte(i, j) == bytes[(i - 1) * width + j]
        word(i, k) == IF width = 1 THEN byte(i, 1) ELSE byte(i, 2 * k - 1) + 256 * byte(i, 2 * k)
    IN [i \in 1..(Len(bytes) \div width) |->
          IF dt = Bool THEN <<IF byte(i, 1) = 0 THEN 0 ELSE 1>>
          ELSE IF dt = I8 THEN <<IF byte(i, 1) > 127 THEN byte(i, 1) - 256 ELSE byte(i, 1)>>
          ELSE IF dt = I16 THEN <<IF word(i, 1) > 32767 THEN word(i, 1) - 65536 ELSE word(i, 1)>>
          ELSE [k \in 1..Max(1, width \div 2) |-> word(i, k)]]

\* the bytes a per-handle call returned, or wrote
Payload ==
    IF last.op = "RawTensor" THEN last.data.data ELSE last.data

SeqSet(s) == {s[i] : i \in 1..Len(s)}

----------------------------------------------------------------------------
(* C7 *)

\* C7: for the same valid input stream, the tensors obtained one by one
\* through LazyTensor(name).Tensor() / RawTensor(), the tensors returned by
\* AllTensors() / AllRawTensors() and the tensors returned by ReadAll /
\* ReadAllRaw are the same set, equal in name, dtype and data: each eager
\* result holds one tensor per name, every per-name result is one of them,
\* and the bulk results are exactly them.
C7_LazyEager ==
    (Opened /\ Addressable) =>
        /\ (eager.typed # None /\ eager.typed.kind = "ok") =>
              /\ Len(eager.typed.tensors) = Cardinality(DOMAIN st.tensors)
              /\ {t.name : t \in SeqSet(eager.typed.tensors)} = DOMAIN st.tensors
              /\ last.op = "Tensor" => (last.kind = "ok" /\ last.data \in SeqSet(eager.typed.tensors))
              /\ last.op = "AllTensors" =>
                    /\ last.kind = "ok" /\ Len(last.data) = Len(eager.typed.tensors)
                    /\ SeqSet(last.data) = SeqSet(eager.typed.tensors)
        /\ (eager.raw # None /\ eager.raw.kind = "ok") =>
              /\ Len(eager.raw.tensors) = Cardinality(DOMAIN st.tensors)
              /\ {t.name : t \in SeqSet(eager.raw.tensors)} = DOMAIN st.tensors
              /\ last.op = "RawTensor" => (last.kind = "ok" /\ last.data \in SeqSet(eager.raw.tensors))
              /\ last.op = "AllRawTensors" =>
                    /\ last.kind = "ok" /\ Len(last.data) = Len(eager.raw.tensors)
                    /\ SeqSet(last.data) = SeqSet(eager.raw.tensors)
        /\ (eager.typed # None /\ eager.raw # None) =>
              /\ eager.typed.kind = eager.raw.kind
              /\ eager.typed.kind = "ok" =>
                    \A t \in SeqSet(eager.typed.tensors) : \E r \in SeqSet(eager.raw.tensors) :
                        r.name = t.name /\ r.dType = t.dType /\ t.data = ElementsOf(r.dType, r.data)
        /\ (last.op = "AllTensors" /\ eager.typed # None) => (last.kind = "ok" <=> eager.typed.kind = "ok")
        /\ (last.op = "AllRawTensors" /\ eager.raw # None) => (last.kind = "ok" <=> eager.raw.kind = "ok")

\* C7: a stream of three tensors, one of them empty, opened away from
\* position 0, was read in bulk and eagerly
C7_Witness ==
    /\ Opened /\ Addressable /\ rs.base > 0
    /\ last.op = "AllTensors" /\ last.kind = "ok" /\ Len(last.data) = 3
    /\ eager.typed # None /\ eager.typed.kind = "ok"

----------------------------------------------------------------------------
(* C8 *)

\* C8: after NewLazy succeeds, for any sequence of calls of ReadData,
\* RawTensor, Tensor and WriteTo on handles of the same LazyST, in any order,
\* repeated and interleaved with AllTensors / AllRawTensors, every call
\* returns exactly the bytes [begin, end) of its own tensor, or the error
\* that the stream and the tensor's range alone determine (the stream does
\* not hold the bytes, or the position of the range is no int64 offset):
\* the result never depends on where earlier calls left the cursor.
C8_OwnBytes ==
    Opened =>
        /\ last.op \in HandleOps =>
              LET t == st.tensors[last.name]
              IN IF t.End = t.Begin
                 THEN IF last.op = "Tensor" /\ BufferStart + t.Begin > MaxInt
                      THEN last.kind = "offset_overflow"
                      ELSE last.kind = "ok" /\ (IF last.op = "Tensor" THEN last.data.data ELSE Payload) = <<>>
                 ELSE IF BufferStart + t.Begin > MaxInt THEN last.kind = "offset_overflow"
                 ELSE IF Present(BufferStart + t.Begin, t.End - t.Begin)
                      THEN /\ last.kind = "ok"
                           /\ IF last.op = "Tensor"
                              THEN /\ last.data.name = last.name /\ last.data.dType = t.DType
                                   /\ last.data.data = ElementsOf(t.DType, OwnBytes(t))
                              ELSE Payload = OwnBytes(t)
                      ELSE last.kind \in {"read_failed", "copy_failed"}
        /\ (last.op = "AllRawTensors" /\ last.kind = "ok") =>
              \A r \in SeqSet(last.data) : r.data = OwnBytes(st.tensors[r.name])
        /\ (last.op = "AllTensors" /\ last.kind = "ok") =>
              \A r \in SeqSet(last.data) :
                  r.data = ElementsOf(r.dType, OwnBytes(st.tensors[r.name]))

\* C8: a handle was read while the cursor stood after its tensor
C8_Witness ==
    /\ Opened /\ last.op = "ReadData" /\ last.kind = "ok" /\ last.data # <<>>
    /\ last.from > BufferStart + st.tensors[last.name].End

----------------------------------------------------------------------------
(* C9 *)

\* C9: NewLazy called on a stream whose cursor is at position p parses the
\* header at p, reads no byte beyond the header (the cursor is left at
\* p + 8 + N when the stream holds the header), and records p + 8 + N as the
\* absolute buffer start, computed with overflow-checked addition (an
\* overflow is an error, not a wrapped offset); every seek of a later
\* per-tensor read goes to p + 8 + N + begin.
C9_BufferStart ==
    /\ (st # None /\ last.op = "NewLazy") =>
          /\ last.from = rs.base
          /\ pos <= rs.base + 8 + PrefixN
          /\ st.kind = "ok" => pos = Min(rs.base + FileLen(rs.file), rs.base + 8 + PrefixN)
          /\ last.sought = <<>>
    /\ Opened =>
          /\ st.dataOffset = rs.base + 8 + PrefixN
          /\ st.dataOffset <= MaxInt
          /\ last.op \in HandleOps =>
                /\ last.sought \in {<<>>, <<rs.base + 8 + PrefixN + st.tensors[last.name].Begin>>}
                /\ (st.tensors[last.name].End > st.tensors[last.name].Begin
                      /\ rs.base + 8 + PrefixN + st.tensors[last.name].Begin <= MaxInt)
                      => last.sought # <<>>
    /\ (st # None /\ rs.base + 8 + PrefixN > MaxInt) => (st.kind = "error" /\ st.err # "")
    /\ (st # None /\ st.kind = "error" /\ st.err = "sum_overflow") => rs.base + 8 + PrefixN > MaxInt

\* C9: a stream opened at a position p > 0 served a tensor that begins
\* after the start of the buffer
C9_Witness ==
    /\ Opened /\ rs.base = MaxBase /\ last.op = "WriteTo" /\ last.kind = "ok"
    /\ st.tensors[last.name].Begin > 0
    /\ last.sought = <<MaxBase + 8 + PrefixN + st.tensors[last.name].Begin>>

\* C9: NewLazy refused a header whose buffer start is no int64 offset
C9_OverflowReached == st # None /\ st.kind = "error" /\ st.err = "sum_overflow"

----------------------------------------------------------------------------
(* C10 *)

\* C10 as stated: reading a tensor with an empty byte range through a lazy
\* handle returns an empty result and performs no I/O on the underlying
\* stream, neither Seek nor Read, so the cursor is unchanged; this holds for
\* ReadData, RawTensor, Tensor and WriteTo.
C10_EmptyNoIO ==
    (Opened /\ last.op \in HandleOps /\ st.tensors[last.name].End = st.tensors[last.name].Begin) =>
        /\ last.kind = "ok"
        /\ (IF last.op = "Tensor" THEN last.data.data ELSE Payload) = <<>>
        /\ last.sought = <<>> /\ last.read = 0
        /\ pos = last.from

\* C10, what the code does guarantee: ReadData, RawTensor and WriteTo of an
\* empty byte range perform no I/O; Tensor of an empty byte range reads
\* nothing but seeks to the start of the range.
C10_EmptyNoRead ==
    (Opened /\ last.op \in HandleOps /\ st.tensors[last.name].End = st.tensors[last.name].Begin) =>
        /\ last.read = 0
        /\ last.op # "Tensor" => (last.kind = "ok" /\ Payload = <<>> /\ last.sought = <<>> /\ pos = last.from)
        /\ (last.op = "Tensor" /\ last.kind = "ok") =>
              (last.data.data = <<>> /\ last.sought = <<BufferStart + st.tensors[last.name].Begin>>)

\* C10: Tensor was called on a handle whose byte range is empty and the
\* stream was sought, moving the cursor
C10_Witness ==
    /\ Opened /\ last.op = "Tensor" /\ last.kind = "ok"
    /\ st.tensors[last.name].End = st.tensors[last.name].Begin
    /\ last.sought # <<>> /\ pos # last.from

----------------------------------------------------------------------------
(* C11 *)

\* the tensor entries of an encoded header
TensorKeys(json) == {k \in DOMAIN json : "data_offsets" \in DOMAIN json[k]}

\* the sorted order of the layout: dtype order descending (the DType values
\* are in increasing alignment order), then name ascending
LayoutBefore(json, k1, k2) ==
    LET d1 == stringToDType[json[k1]["dtype"].str]
        d2 == stringToDType[json[k2]["dtype"].str]
    IN d1 > d2 \/ (d1 = d2 /\ NameRank[k1] < NameRank[k2])

\* the byte ranges of the header follow the sorted order, start at 0 and
\* accumulate the sizes
SortedLayout(json) ==
    LET keys == TensorKeys(json)
        begin(k) == json[k]["data_offsets"].arr[1]
        end(k) == json[k]["data_offsets"].arr[2]
    IN /\ \A k1, k2 \in keys : (k1 # k2 /\ LayoutBefore(json, k1, k2)) => end(k1) <= begin(k2)
       /\ \A k \in keys : begin(k) = 0 \/ \E p \in keys : p # k /\ end(p) = begin(k)
       /\ keys # {} => \E k \in keys : begin(k) = 0

NoReservedName == \A i \in 1..Len(tensors) : tensors[i].name # metadataKey

\* C11 as stated: serialization lays the tensors out sorted by dtype order
\* descending, then by name ascending, whatever the order in which the
\* caller supplied them, and assigns byte ranges by accumulating sizes in
\* that order starting at 0, in the stream Serialize and in the legacy
\* Serialize / SerializeToWriter.
C11_SortedLayout ==
    (sres # None /\ sres.kind = "ok" /\ UniqueNames(tensors) /\ NoReservedName) => SortedLayout(w.json)

\* C11, what the code does guarantee: the legacy Serialize and
\* SerializeToWriter sort; the stream Serialize keeps the caller's order.
C11_LegacySorted ==
    (sres # None /\ sres.kind = "ok" /\ UniqueNames(tensors) /\ NoReservedName) =>
        IF sres.api = "stream"
        THEN \A i \in 1..Len(tensors) :
                /\ w.json[tensors[i].name]["data_offsets"].arr[1]
                     = (IF i = 1 THEN 0 ELSE w.json[tensors[i - 1].name]["data_offsets"].arr[2])
        ELSE SortedLayout(w.json)

\* C11: the stream Serialize was handed a U8 tensor before an I16 tensor and
\* laid the U8 tensor out first
C11_Witness ==
    /\ sres # None /\ sres.kind = "ok" /\ sres.api = "stream" /\ Len(tensors) = 2
    /\ tensors[1].dType = U8 /\ tensors[2].dType = I16 /\ tensors[1].name = "a" /\ tensors[2].name = "b"
    /\ w.json["a"]["data_offsets"].arr = <<0, 2>>
    /\ w.json["b"]["data_offsets"].arr[1] = 2

----------------------------------------------------------------------------
(* C12 *)

\* the bytes that follow the header of the written stream
WrittenData == SubSeq(w.rest, Uint64(w.size) - w.jsonLen + 1, Len(w.rest))

\* end - begin of the header entry of the i-th tensor handed to Serialize
EntrySize(i) ==
    w.json[tensors[i].name]["data_offsets"].arr[2] - w.json[tensors[i].name]["data_offsets"].arr[1]

\* WriteTo of the i-th tensor fails, or reports a count other than end - begin
BadWrite(i) == tensors[i].werr \/ tensors[i].wn # EntrySize(i)

\* what the first n tensors wrote
WrittenBy(n) == Concat([i \in 1..n |-> tensors[i].wbytes])

\* C12: while writing tensor data, Serialize checks after each tensor that
\* the number of bytes its WriteTo reported equals end - begin of that
\* tensor's header entry; on a mismatch, or a write error, it returns an
\* error naming the tensor and writes no byte of any later tensor.
C12_WriteCheck ==
    (sres # None /\ sres.api = "stream" /\ w # EmptyFile) =>
        IF \E i \in 1..Len(tensors) : BadWrite(i)
        THEN LET f == CHOOSE i \in 1..Len(tensors) : BadWrite(i) /\ \A j \in 1..(i - 1) : ~BadWrite(j)
             IN /\ sres.kind = (IF tensors[f].werr THEN "write_failed" ELSE "written_count")
                /\ sres.tensor = tensors[f].name
                /\ WrittenData = WrittenBy(f)
        ELSE sres.kind = "ok" /\ WrittenData = WrittenBy(Len(tensors))

\* C12: the first of two tensors reported one byte more than its range and
\* nothing of the second, which had bytes to write, reached the stream
C12_Witness ==
    /\ sres # None /\ sres.api = "stream" /\ sres.kind = "written_count"
    /\ Len(tensors) = 2 /\ sres.tensor = tensors[1].name
    /\ ~tensors[1].werr /\ tensors[1].wn = EntrySize(1) + 1
    /\ tensors[2].wbytes # <<>>
    /\ \A i \in 1..Len(WrittenData) : WrittenData[i] = Mark(tensors[1].name)

----------------------------------------------------------------------------
(* C13 *)

\* the header built for the i-th tensor cannot be valid: its dtype is
\* invalid, its shape has a negative entry, or its size overflows
ShapeDefect(i) ==
    \/ ~DTypeValid(tensors[i].dType)
    \/ \E j \in 1..Len(tensors[i].shape) : tensors[i].shape[j] < 0
    \/ PrefixOverflows(tensors[i].shape)
    \/ TrueProduct(tensors[i].shape) * dTypeToSize[tensors[i].dType] > MaxInt

\* the byte range a view gets, the length of its data, does not match its
\* shape and dtype
RangeDefect(i) ==
    ~ShapeDefect(i) /\ Len(tensors[i].wbytes) # TrueProduct(tensors[i].shape) * dTypeToSize[tensors[i].dType]

\* C13 as stated: every serialization path validates the header it built
\* before emitting anything: if the header fails validation (invalid dtype,
\* negative shape entry, size overflow, byte range not matching shape and
\* dtype, duplicate name), the operation returns an error and not a single
\* byte has been written, in the stream Serialize and in the legacy
\* Serialize / SerializeToWriter.
C13_ValidatedBeforeWrite ==
    (sres # None
        /\ \/ ~UniqueNames(tensors)
           \/ \E i \in 1..Len(tensors) : ShapeDefect(i)
           \/ (sres.api # "stream" /\ \E i \in 1..Len(tensors) : RangeDefect(i)))
    => (sres.kind # "ok" /\ w = EmptyFile)

\* C13, what the code does guarantee: the stream Serialize writes nothing
\* unless the header it built is valid; the legacy Serialize and
\* SerializeToWriter refuse nothing but a DType their package does not have.
C13_StreamValidated ==
    /\ (sres # None /\ sres.api = "stream"
          /\ (~UniqueNames(tensors) \/ \E i \in 1..Len(tensors) : ShapeDefect(i)))
       => (sres.kind \in {"duplicate_name", "invalid_header"} /\ w = EmptyFile)
    /\ (sres # None /\ sres.api # "stream") =>
          (sres.kind = "ok" <=> \A i \in 1..Len(tensors) : DTypeValid(tensors[i].dType))

\* C13: the legacy Serialize returned, without an error, a stream whose
\* header gives a tensor of two U8 elements a range of four bytes
C13_Witness ==
    /\ sres # None /\ sres.api = "legacy" /\ sres.kind = "ok" /\ w # EmptyFile
    /\ Len(tensors) = 1 /\ tensors[1].dType = U8 /\ tensors[1].shape = <<2>>
    /\ w.json[tensors[1].name]["data_offsets"].arr = <<0, 4>>

----------------------------------------------------------------------------
(* C14 *)

\* C14 as stated: a tensor named "__metadata__" offered for serialization
\* is rejected with an error, and the encoded header never has the metadata
\* object replaced by a tensor entry under the reserved key.
C14_ReservedName ==
    (sres # None /\ ~NoReservedName) =>
        /\ sres.kind # "ok"
        /\ (w # EmptyFile /\ metadataKey \in DOMAIN w.json) => metadataKey \notin TensorKeys(w.json)

\* C14: Serialize accepted a tensor named "__metadata__" together with a
\* metadata map, and the header holds the tensor in place of the metadata
C14_Witness ==
    /\ sres # None /\ sres.api = "stream" /\ sres.kind = "ok"
    /\ Len(tensors) = 1 /\ tensors[1].name = metadataKey /\ DOMAIN metadata # {}
    /\ metadataKey \in TensorKeys(w.json)

\* C14: the legacy Serialize did the same
C14_LegacyWitness ==
    /\ sres # None /\ sres.api = "legacy" /\ sres.kind = "ok"
    /\ Len(tensors) = 1 /\ tensors[1].name = metadataKey /\ DOMAIN metadata # {}
    /\ metadataKey \in TensorKeys(w.json)
----------------------------------------------------------------------------
(* Legacy API: ReadMetadata and Deserialize over a whole buffer            *)

\* maxHeaderSize (100_000_000 in the source): a ceiling far below the
\* largest int, kept in that relation to the modelled word
maxHeaderSize == 2^(WordBits - 4)

\* the values of an array are natural numbers strconv.ParseUint accepts
Naturals64(a) == \A i \in 1..Len(a) : a[i] >= 0 /\ a[i] <= MaxUint

\* unmarshalTensorInfo: "" or the first error met
unmarshalTensorInfo(m) ==
    IF Cardinality(DOMAIN m) # 3 THEN "invalid_keys"
    ELSE IF "dtype" \notin DOMAIN m THEN "dtype_missing"
    ELSE IF "str" \notin DOMAIN m["dtype"] THEN "dtype_not_string"
    ELSE IF m["dtype"].str \notin DOMAIN stringToDType THEN "dtype_invalid"
    ELSE IF "shape" \notin DOMAIN m THEN "shape_missing"
    ELSE IF "arr" \notin DOMAIN m["shape"] THEN "shape_not_array"
    ELSE IF ~Naturals64(m["shape"].arr) THEN "shape_value"
    ELSE IF "data_offsets" \notin DOMAIN m THEN "data_offsets_missing"
    ELSE IF "arr" \notin DOMAIN m["data_offsets"] THEN "data_offsets_not_array"
    ELSE IF Len(m["data_offsets"].arr) # 2 THEN "data_offsets_length"
    ELSE IF ~Naturals64(m["data_offsets"].arr) THEN "data_offsets_value"
    ELSE ""

\* Metadata.UnmarshalJSON of the object raw: the set of outcomes (the map
\* iteration reports whichever failing entry it meets first)
MetadataUnmarshalJSON(raw) ==
    LET names == DOMAIN raw \ {metadataKey}
        badMeta == metadataKey \in DOMAIN raw /\ \E k \in DOMAIN raw[metadataKey] : "str" \notin DOMAIN raw[metadataKey][k]
        bad == {n \in names : unmarshalTensorInfo(raw[n]) # ""}
        md == IF metadataKey \in DOMAIN raw THEN [k \in DOMAIN raw[metadataKey] |-> raw[metadataKey][k].str] ELSE <<>>
        tm == [n \in names |-> [Name |-> n, DType |-> ParseTag(raw[n]["dtype"].str), Shape |-> raw[n]["shape"].arr,
                                Begin |-> raw[n]["data_offsets"].arr[1], End |-> raw[n]["data_offsets"].arr[2]]]
    IN IF badMeta \/ bad # {}
       THEN {[err |-> "metadata_non_string", tensor |-> ""] : x \in IF badMeta THEN {1} ELSE {}}
            \cup {[err |-> unmarshalTensorInfo(raw[n]), tensor |-> n] : n \in bad}
       ELSE {[err |-> "", tensor |-> "", m |-> m] : m \in UnmarshalMetadata(md, tm)}

\* Metadata{}
ZeroMetadata == [metadata |-> <<>>, tensors |-> <<>>, indexMap |-> <<>>]

\* ReadMetadata that does not compare the end of the data with the length of
\* the buffer
ReadMetadataAnyLength(f) ==
    LET bufferLen == FileLen(f)
        n == Uint64(f.size)
        fail(e, t) == [err |-> e, tensor |-> t, n |-> 0, m |-> ZeroMetadata]
    IN IF bufferLen < 8 THEN {fail("header_too_small", "")}
       ELSE IF n > maxHeaderSize THEN {fail("header_too_large", "")}
       ELSE IF n + 8 > bufferLen THEN {fail("invalid_header_length", "")}
       ELSE IF f.json = None \/ n < f.jsonLen \/ \E i \in 1..(n - f.jsonLen) : f.rest[i] \notin Whitespace
            THEN {fail("invalid_header_deserialization", "")}
       ELSE {IF u.err # "" THEN fail(u.err, u.tensor)
             ELSE LET v == MetadataValidate(u.m)
                  IN IF v.kind # "ok" THEN fail(v.kind, v.tensor)
                     ELSE [err |-> "", tensor |-> "", n |-> n, m |-> u.m] :
                u \in MetadataUnmarshalJSON(f.json)}

\* ReadMetadata on the buffer f: the set of outcomes; n is the header size
\* and m the Metadata
ReadMetadata(f) ==
    LET bufferLen == FileLen(f)
        n == Uint64(f.size)
        fail(e, t) == [err |-> e, tensor |-> t, n |-> 0, m |-> ZeroMetadata]
    IN IF bufferLen < 8 THEN {fail("header_too_small", "")}
       ELSE IF n > maxHeaderSize THEN {fail("header_too_large", "")}
       ELSE IF n + 8 > bufferLen THEN {fail("invalid_header_length", "")}
       ELSE IF f.json = None \/ n < f.jsonLen \/ \E i \in 1..(n - f.jsonLen) : f.rest[i] \notin Whitespace
            THEN {fail("invalid_header_deserialization", "")}
       ELSE {IF u.err # "" THEN fail(u.err, u.tensor)
             ELSE LET v == MetadataValidate(u.m)
                  IN IF v.kind # "ok" THEN fail(v.kind, v.tensor)
                     ELSE IF (v.expected + 8 + n) % WordMod # bufferLen THEN fail("metadata_incomplete_buffer", "")
                     ELSE [err |-> "", tensor |-> "", n |-> n, m |-> u.m] :
                u \in MetadataUnmarshalJSON(f.json)}

\* Deserialize that does not compare the length of the buffer with the end
\* of the data the header describes
DeserializeAnyLength(f) ==
    {IF d.err = "metadata_incomplete_buffer" THEN [err |-> "", tensor |-> "", n |-> Uint64(f.size), m |-> ZeroMetadata]
     ELSE d :
        d \in ReadMetadata(f)}

\* buffer[n+8:]
DataOf(f, n) == SubSeq(f.rest, n - f.jsonLen + 1, Len(f.rest))

\* st.data[begin:end]: the slice expression panics when begin > end or
\* end exceeds the data
SliceOf(data, begin, end) ==
    IF begin > end \/ end > Len(data) THEN [panic |-> TRUE, data |-> <<>>]
    ELSE [panic |-> FALSE, data |-> SubSeq(data, begin + 1, end)]

\* SafeTensors.Tensor(name) on the SafeTensors Deserialize(f) returned as d
SafeTensorsTensor(f, d, name) ==
    IF name \notin DOMAIN d.m.indexMap THEN [found |-> FALSE, panic |-> FALSE, name |-> name, data |-> <<>>]
    ELSE LET info == d.m.tensors[d.m.indexMap[name] + 1]
             v == SliceOf(DataOf(f, d.n), info.DataOffsets[1], info.DataOffsets[2])
         IN [found |-> TRUE, panic |-> v.panic, name |-> name, data |-> v.data]

\* SafeTensors.Tensors(): a view of every tensor, or the panic of the first
\* slice expression that fails
SafeTensorsTensors(f, d) ==
    LET views == [i \in 1..Len(d.m.tensors) |->
                    SliceOf(DataOf(f, d.n), d.m.tensors[i].DataOffsets[1], d.m.tensors[i].DataOffsets[2])]
    IN [panic |-> \E i \in 1..Len(views) : views[i].panic,
        data |-> [i \in 1..Len(views) |-> views[i].data]]

\* Deserialize: ReadMetadata, then the data is what follows the header
Deserialize(f) == ReadMetadata(f)

----------------------------------------------------------------------------
(* Decoding of bounded streams: headers with missing and additional        *)
(* fields, content after the JSON object, size prefixes that are too       *)
(* small, too large or wrong, missing and additional data bytes.           *)

Entry(dt, shape, off) == [dtype |-> JStr(dt), shape |-> JArr(shape), data_offsets |-> JArr(off)]

\* objects that decode and describe no valid layout: begin after end, a
\* range that does not start at 0, overlapping ranges, a range that is not
\* the size of the shape
DefectiveObjects ==
    {[a |-> Entry("U8", <<2>>, <<2, 0>>)],
     [a |-> Entry("U8", <<2>>, <<1, 3>>)],
     [n \in {"a", "b"} |-> IF n = "a" THEN Entry("U8", <<2>>, <<0, 2>>) ELSE Entry("U8", <<2>>, <<1, 3>>)],
     [a |-> Entry("U16", <<3>>, <<0, 2>>)]}

DecodeObjects ==
    {<<>>,
     [a |-> Entry("U8", <<2>>, <<0, 2>>)],
     [n \in {"a", metadataKey} |-> IF n = "a" THEN Entry("U8", <<2>>, <<0, 2>>) ELSE [k |-> JStr("v")]],
     [a |-> [dtype |-> JStr("U8"), data_offsets |-> JArr(<<0, 2>>)]],
     [a |-> [dtype |-> JStr("U8"), shape |-> JArr(<<2>>)]],
     [a |-> [dtype |-> JStr("U8"), shape |-> JArr(<<2>>), data_offsets |-> JArr(<<0, 2>>), extra |-> JStr("x")]],
     [a |-> [shape |-> JArr(<<2>>), data_offsets |-> JArr(<<0, 2>>), extra |-> JStr("x")]],
     [n \in {"a", "b"} |-> IF n = "a" THEN Entry("U16", <<1>>, <<0, 2>>) ELSE Entry("U8", <<2>>, <<2, 4>>)],
     [n \in {"a", "b"} |-> IF n = "a" THEN Entry("U16", <<1>>, <<0, 2>>)
                           ELSE [dtype |-> JStr("U8"), shape |-> JArr(<<2>>), data_offsets |-> JArr(<<2, 4>>),
                                 extra |-> JArr(<<1>>)]]}
    \cup DefectiveObjects

\* what follows the JSON object within the header bytes: nothing, white
\* space, the token 1, a closing brace, the letter x, an object
Trailings == {<<>>, <<32>>, <<32, 10, 9, 13>>, <<32, 49>>, <<125>>, <<32, 120>>, <<123, 125, 32>>}

Spaces(n) == [i \in 1..n |-> Space]

\* the end of the byte buffer the entries of an object describe
DataEnd(json) ==
    LET ends == {json[k]["data_offsets"].arr[2] : k \in {x \in DOMAIN json : "data_offsets" \in DOMAIN json[x]}}
    IN IF ends = {} THEN 0 ELSE CHOOSE e \in ends : \A x \in ends : x <= e

\* the stream: size prefix n, the JSON text, what follows it, then data
\* bytes, extra more (or fewer) than the entries describe
DecodeFile(json, trailing, n, more) ==
    [size |-> PutUint64(n), json |-> json, jsonLen |-> JSONLen(json),
     rest |-> trailing \o [i \in 1..Max(0, DataEnd(json) + more) |-> DataByte(i)]]

\* one tensor whose byte range ends 7 short of the largest unsigned word
HugeObject == [a |-> Entry("U8", <<MaxUint - 7>>, <<0, MaxUint - 7>>)]

DecodeStreams ==
    {[base |-> 0, file |-> f] :
        f \in UNION {
            \* a size prefix that counts the header bytes
            {DecodeFile(j, t, JSONLen(j) + Len(t), x) : t \in Trailings, x \in -MaxCut..MaxCut}
            \* padded up to the legacy ceiling, and one byte beyond it
            \cup {DecodeFile(j, Spaces(n - JSONLen(j)), n, x) :
                     n \in {maxHeaderSize, maxHeaderSize + 1}, x \in -MaxCut..MaxCut}
            \* a byte range that ends near the largest word, with next to no data
            \cup {DecodeFile(HugeObject, <<>>, JSONLen(HugeObject), x - DataEnd(HugeObject)) : x \in 0..MaxCut}
            \* a size prefix that counts something else
            \cup {DecodeFile(j, <<>>, n, 0) :
                     n \in {0, 1, JSONLen(j) - 1, JSONLen(j) + 1, MaxInt - 8, MaxInt - 7, MaxUint}} :
            j \in DecodeObjects}}

ZeroHeader == [Tensors |-> <<>>, Metadata |-> <<>>, ByteBufferOffset |-> 0]

InitDecode ==
    /\ rs \in DecodeStreams
    /\ pos = 0
    /\ st = None /\ last = None /\ eager = NoEager /\ vres = None /\ lres = None
    /\ vh = Idle /\ tensors = Idle /\ metadata = Idle /\ w = Idle /\ sres = Idle /\ rres = Idle

\* h, err := header.Read(r) on a fresh reader of the stream; every failing
\* return of Read carries Header{}
HeaderReadOp ==
    /\ vres = None
    /\ \E h \in HeaderRead(rs.file, FileLen(rs.file)) :
          vres' = [err |-> h.err, tensor |-> IF "tensor" \in DOMAIN h THEN h.tensor ELSE "",
                   consumed |-> h.consumed, header |-> IF h.err = "" THEN h.head ELSE ZeroHeader]
    /\ UNCHANGED <<vh, lres, tensors, metadata, w, sres, rres, rs, pos, st, last, eager>>

\* st, err := Deserialize(buffer) of the legacy API on the bytes of the stream
DeserializeOp ==
    /\ lres = None
    /\ \E d \in Deserialize(rs.file) : lres' = d
    /\ UNCHANGED <<vh, vres, tensors, metadata, w, sres, rres, rs, pos, st, last, eager>>

\* st, err := NewLazy(rs, 0)
NewLazyDefaultOp ==
    /\ st = None
    /\ \E l \in NewLazy(rs, pos, 0) :
          /\ st' = [kind |-> l.kind, err |-> l.err, tensors |-> l.tensors, metadata |-> l.metadata,
                    dataOffset |-> l.dataOffset]
          /\ pos' = l.cursor
          /\ last' = Called("NewLazy", "", pos, Did(l.kind, <<>>, <<>>, l.cursor - pos, l.cursor))
    /\ UNCHANGED <<vh, vres, lres, tensors, metadata, w, sres, rres, rs, eager>>

\* view, ok := st.Tensor(name) on the SafeTensors Deserialize returned
SafeTensorsTensorOp ==
    /\ lres # None /\ lres.err = "" /\ sres = Idle
    /\ \E name \in DOMAIN lres.m.indexMap \cup {"missing"} : sres' = SafeTensorsTensor(rs.file, lres, name)
    /\ UNCHANGED <<vh, vres, lres, tensors, metadata, w, rres, rs, pos, st, last, eager>>

\* views := st.Tensors() on the SafeTensors Deserialize returned
SafeTensorsTensorsOp ==
    /\ lres # None /\ lres.err = "" /\ rres = Idle
    /\ rres' = SafeTensorsTensors(rs.file, lres)
    /\ UNCHANGED <<vh, vres, lres, tensors, metadata, w, sres, rs, pos, st, last, eager>>

NextDecode ==
    \/ HeaderReadOp \/ DeserializeOp \/ NewLazyDefaultOp \/ EagerReadAllOp \/ EagerReadAllRawOp
    \/ SafeTensorsTensorOp \/ SafeTensorsTensorsOp

SpecDecode == InitDecode /\ [][NextDecode]_vars
----------------------------------------------------------------------------
(* C15: the size prefix of the header                                      *)

ReadersRejected ==
    /\ vres # None => vres.err # "" /\ vres.consumed = 8 /\ vres.header = ZeroHeader
    /\ eager.typed # None => eager.typed.kind # "ok"
    /\ eager.raw # None => eager.raw.kind # "ok"
    /\ st # None => st.kind # "ok" /\ pos = 8

\* C15: a size prefix N smaller than 2, and a size prefix above the ceiling
\* maxHeaderSize, is rejected before any byte of the header body is read:
\* by header.Read, by ReadAll, ReadAllRaw and NewLazy with headerSizeLimit
\* 0, and by the legacy ReadMetadata.
C15_PrefixBounds ==
    (PrefixN < 2 \/ PrefixN > maxHeaderSize) =>
        /\ ReadersRejected
        /\ lres # None => lres.err # ""

\* what holds of the prefix: below 2 every reader rejects it after the 8
\* bytes of the prefix; above the ceiling the legacy ReadMetadata rejects
\* it as too large, and header.Read rejects only what exceeds MaxInt - 8
C15_TooSmall ==
    PrefixN < 2 => ReadersRejected /\ (lres # None => lres.err # "")

C15_LegacyCeiling ==
    (PrefixN > maxHeaderSize /\ lres # None) =>
        lres.err = "header_too_large"

C15_ReadCeiling ==
    (PrefixN > MaxInt - 8 /\ vres # None) => vres.err = "size_too_large" /\ vres.consumed = 8

\* a prefix above the ceiling, accepted by header.Read and by the readers
\* built on it
C15_Witness ==
    /\ PrefixN > maxHeaderSize
    /\ vres # None /\ vres.err = "" /\ vres.consumed = 8 + PrefixN
    /\ eager.typed # None /\ eager.typed.kind = "ok"
    /\ st # None /\ st.kind = "ok"
    /\ lres # None /\ lres.err = "header_too_large"
----------------------------------------------------------------------------
(* C16: what follows the JSON object within the N header bytes             *)

\* the bytes of the stream between the end of the JSON object and the end
\* of the N header bytes
Trail == SubSeq(rs.file.rest, 1, Min(Len(rs.file.rest), PrefixN - rs.file.jsonLen))

TrailIsWhitespace == \A i \in 1..Len(Trail) : Trail[i] \in {32, 9, 10, 13}

\* the object itself is one header.Read takes
WellFormed == \A c \in convertRawHeader(rs.file.json) : c.err = ""

\* C16: header.Read accepts the N header bytes only if every byte after the
\* JSON object, up to N, is JSON white space (and does accept a well-formed
\* object followed by white space only); with anything else there, be it a
\* valid JSON token or not, Read fails and returns the zero Header.
C16_TrailingContent ==
    (vres # None /\ PrefixN >= rs.file.jsonLen /\ PrefixN <= MaxInt - 8) =>
        /\ vres.err = "" => TrailIsWhitespace
        /\ ~TrailIsWhitespace => vres.err = "unexpected_data" /\ vres.header = ZeroHeader
        /\ (TrailIsWhitespace /\ WellFormed) => vres.err = "" /\ vres.header.ByteBufferOffset = 8 + PrefixN

\* the token 1 after the object: rejected
C16_Witness ==
    /\ vres # None /\ Trail = <<32, 49>> /\ WellFormed
    /\ vres.err = "unexpected_data" /\ vres.header = ZeroHeader

\* white space after the object: accepted
C16_WitnessAccepted ==
    /\ vres # None /\ Trail = <<32, 10, 9, 13>> /\ vres.err = "" /\ DOMAIN vres.header.Tensors # {}
----------------------------------------------------------------------------
(* C17: the fields of a tensor object                                      *)

TensorFields == {"dtype", "shape", "data_offsets"}

TensorObjects == DOMAIN rs.file.json \ {metadataKey}

Inexact == {k \in TensorObjects : DOMAIN rs.file.json[k] # TensorFields}

MissingField == {k \in TensorObjects : ~(TensorFields \subseteq DOMAIN rs.file.json[k])}

\* the N header bytes are there and hold the JSON object and white space
HeaderBytesDecoded ==
    /\ PrefixN >= rs.file.jsonLen /\ PrefixN <= Len(rs.file.rest) + rs.file.jsonLen
    /\ TrailIsWhitespace

\* C17: a tensor object is accepted only with exactly the fields dtype,
\* shape and data_offsets.  With a field missing or a field added,
\* header.Read and the legacy Metadata.UnmarshalJSON (under ReadMetadata)
\* fail with an error that names a tensor whose object is not exact.
C17_ExactFields ==
    /\ vres # None =>
          /\ vres.err = "" => Inexact = {}
          /\ (Inexact # {} /\ HeaderBytesDecoded /\ PrefixN <= MaxInt - 8) =>
                /\ vres.err \in {"dtype_missing", "shape_missing", "data_offsets_missing", "unknown_keys"}
                /\ vres.err = "unknown_keys" <=> vres.tensor \notin MissingField
                /\ vres.tensor \in Inexact
                /\ vres.header = ZeroHeader
    /\ lres # None =>
          /\ lres.err = "" => Inexact = {}
          /\ (Inexact # {} /\ HeaderBytesDecoded /\ PrefixN <= maxHeaderSize) =>
                /\ lres.err \in {"dtype_missing", "invalid_keys"}
                /\ lres.tensor \in Inexact

\* an object with a field added, among two tensors: both decoders have
\* failed and name it
C17_Witness ==
    /\ TensorObjects = {"a", "b"} /\ Inexact = {"b"} /\ MissingField = {}
    /\ vres # None /\ vres.err = "unknown_keys" /\ vres.tensor = "b"
    /\ lres # None /\ lres.err = "invalid_keys" /\ lres.tensor = "b"

\* an object with a field missing
C17_WitnessMissing ==
    /\ MissingField = {"a"} /\ "shape" \notin DOMAIN rs.file.json["a"]
    /\ vres # None /\ vres.err = "shape_missing" /\ vres.tensor = "a"
    /\ lres # None /\ lres.err = "invalid_keys" /\ lres.tensor = "a"
----------------------------------------------------------------------------
(* checkedMul over pairs of unsigned words (math.go, math_test.go)         *)

\* the largest small operand
MaxSmall == 9

\* the operands: small values, the values about the square root and the
\* half of the largest word, and the largest words
MulOperands ==
    0..MaxSmall
    \cup {2^(WordBits \div 2) - 1, 2^(WordBits \div 2), 2^(WordBits \div 2) + 1}
    \cup {MaxUint \div 3, MaxUint \div 3 + 1, MaxUint \div 2, MaxUint \div 2 + 1, MaxUint - 1, MaxUint}

InitMul ==
    /\ vh \in {[kind |-> "pair", a |-> a, b |-> b] : a \in MulOperands, b \in MulOperands}
    /\ vres = None /\ lres = None
    /\ tensors = Idle /\ metadata = Idle /\ w = Idle /\ sres = Idle /\ rres = Idle
    /\ rs = Idle /\ pos = 0 /\ st = Idle /\ last = Idle /\ eager = Idle

\* c, err := checkedMul(a, b)
CheckedMulOp ==
    /\ vres = None
    /\ vres' = checkedMul(vh.a, vh.b)
    /\ UNCHANGED <<vh, lres, tensors, metadata, w, sres, rres, rs, pos, st, last, eager>>

\* c, err := checkedMul(b, a)
CheckedMulSwappedOp ==
    /\ lres = None
    /\ lres' = checkedMul(vh.b, vh.a)
    /\ UNCHANGED <<vh, vres, tensors, metadata, w, sres, rres, rs, pos, st, last, eager>>

NextMul == CheckedMulOp \/ CheckedMulSwappedOp

SpecMul == InitMul /\ [][NextMul]_vars

----------------------------------------------------------------------------
(* C18: checkedMul                                                         *)

\* C18: checkedMul(a, b) returns the overflow error exactly when the true
\* product of the two unsigned words exceeds the largest word, and the
\* exact product without error otherwise, among others for the operands
\* 0, 1, the largest word and its half; checkedMul(b, a) returns the same.
C18_CheckedMul ==
    /\ vres # None =>
          /\ vres.overflow <=> vh.a * vh.b > MaxUint
          /\ ~vres.overflow => vres.val = vh.a * vh.b
    /\ lres # None =>
          /\ lres.overflow <=> vh.a * vh.b > MaxUint
          /\ ~lres.overflow => lres.val = vh.a * vh.b
    /\ (vres # None /\ lres # None) => vres = lres

\* half the largest word times 3 overflows, in both orders
C18_Witness ==
    /\ vh.a = MaxUint \div 2 /\ vh.b = 3
    /\ vres # None /\ vres.overflow /\ lres # None /\ lres.overflow

\* half the largest word times 2 is exact, in both orders
C18_WitnessExact ==
    /\ vh.a = MaxUint \div 2 /\ vh.b = 2
    /\ vres # None /\ ~vres.overflow /\ vres.val = MaxUint - 1 /\ lres = vres
----------------------------------------------------------------------------
(* C19: the length of the buffer given to Deserialize                      *)

\* the length 8 + N + the end of the last byte range, as a number
ExactLength == 8 + PrefixN + DataEnd(rs.file.json)

\* the header of the buffer is one the legacy decoder takes and validates
LegacyHeaderValid ==
    /\ PrefixN <= maxHeaderSize /\ HeaderBytesDecoded
    /\ \A u \in MetadataUnmarshalJSON(rs.file.json) : u.err = "" /\ MetadataValidate(u.m).kind = "ok"

\* C19: Deserialize accepts a buffer only if its length is exactly 8 + N +
\* the end of the last tensor's byte range; under a valid header a buffer
\* with bytes beyond the tensor data, and a buffer with bytes of the tensor
\* data missing, are rejected with "metadata incomplete buffer", and a
\* buffer of the exact length is accepted.
C19_ExactLength ==
    lres # None =>
        /\ lres.err = "" => FileLen(rs.file) = ExactLength
        /\ (LegacyHeaderValid /\ FileLen(rs.file) # ExactLength) => lres.err = "metadata_incomplete_buffer"
        /\ (LegacyHeaderValid /\ FileLen(rs.file) = ExactLength) => lres.err = "" /\ lres.n = PrefixN

\* a byte beyond the tensor data: rejected
C19_Witness ==
    /\ LegacyHeaderValid /\ DataEnd(rs.file.json) = 4 /\ FileLen(rs.file) = ExactLength + 1
    /\ lres # None /\ lres.err = "metadata_incomplete_buffer"

\* a byte of the tensor data missing: rejected
C19_WitnessMissing ==
    /\ LegacyHeaderValid /\ DataEnd(rs.file.json) = 4 /\ FileLen(rs.file) = ExactLength - 1
    /\ lres # None /\ lres.err = "metadata_incomplete_buffer"

\* a byte range that ends near the largest word: the sum that wraps is
\* not the length of the buffer
C19_WitnessWrap ==
    /\ LegacyHeaderValid /\ rs.file.json = HugeObject /\ FileLen(rs.file) = 8 + PrefixN + 1
    /\ lres # None /\ lres.err = "metadata_incomplete_buffer"
----------------------------------------------------------------------------
(* C20: streams that end before the data of a tensor                       *)

\* the bytes of the byte buffer the stream holds
BufferBytes == FileLen(rs.file) - 8 - PrefixN

RangeOf(k) == rs.file.json[k]["data_offsets"].arr

\* the tensors of the header some of whose bytes the stream does not hold
Truncated ==
    {k \in DOMAIN rs.file.json \ {metadataKey} : RangeOf(k)[2] > RangeOf(k)[1] /\ RangeOf(k)[2] > BufferBytes}

\* a read of all tensors failed on a truncated tensor: its error names the
\* tensor and it returns no tensor
FailedNaming(r) == r.kind = "read_failed" /\ r.tensor \in Truncated

HandleReads == {"ReadData", "RawTensor", "Tensor"}

\* C20: when the stream ends before all bytes of some tensor, ReadAll,
\* ReadAllRaw, LazyST.AllTensors and AllRawTensors, and LazyTensor.Tensor,
\* RawTensor and ReadData on that tensor, return an error that names the
\* tensor and return no tensor and no data.
C20_TruncatedNamed ==
    Truncated # {} =>
        /\ eager.typed # None => FailedNaming(eager.typed) /\ eager.typed.tensors = <<>>
        /\ eager.raw # None => FailedNaming(eager.raw) /\ eager.raw.tensors = <<>>
        /\ (last # None /\ last.op \in {"AllTensors", "AllRawTensors"}) => FailedNaming(last) /\ last.data = <<>>
        /\ (last # None /\ last.op \in HandleReads /\ last.name \in Truncated /\ last.kind # "offset_overflow") =>
              /\ last.kind = "read_failed" /\ last.data = <<>>
              /\ last.tensor = last.name

\* what holds of a truncated stream: the readers of all tensors name the
\* tensor and return none; the calls on a LazyTensor fail and return
\* nothing, with an error that names no tensor
C20_AllNamed ==
    Truncated # {} =>
        /\ eager.typed # None => FailedNaming(eager.typed) /\ eager.typed.tensors = <<>>
        /\ eager.raw # None => FailedNaming(eager.raw) /\ eager.raw.tensors = <<>>
        /\ (last # None /\ last.op \in {"AllTensors", "AllRawTensors"}) => FailedNaming(last) /\ last.data = <<>>

C20_HandleFails ==
    (last # None /\ last.op \in HandleReads /\ last.name \in Truncated /\ last.kind # "offset_overflow") =>
        last.kind = "read_failed" /\ last.data = <<>> /\ last.tensor = ""

\* LazyTensor.Tensor on a truncated tensor has failed, and the readers of
\* all tensors have failed naming it
C20_Witness ==
    /\ last # None /\ last.op = "Tensor" /\ last.name \in Truncated
    /\ last.kind = "read_failed" /\ last.tensor = ""
    /\ eager.typed # None /\ FailedNaming(eager.typed) /\ eager.typed.tensor = last.name
    /\ eager.raw # None /\ FailedNaming(eager.raw)
----------------------------------------------------------------------------
(* Boolean tensors: streams whose byte buffer holds arbitrary bytes for a  *)
(* Bool tensor, and []bool data handed to Serialize                        *)

MaxBools == 3    \* largest number of elements of a Bool tensor

\* the bytes a stream holds for a bool: 0x00, 0x01, 0xfe, 0xff
BoolBytes == {0, 1, 254, 255}

BoolByteSeqs == UNION {[1..n -> BoolBytes] : n \in 0..MaxBools}

\* []bool values: 0 is false, 1 is true
BoolData == UNION {[1..n -> {<<0>>, <<1>>}] : n \in 0..MaxBools}

\* the stream of a Bool tensor "a" of shape [len(b)] over the bytes b
BoolFile(b) ==
    LET hts == makeHeaderTensorSlice(<<Tensor("a", Bool, <<Len(b)>>, <<>>, FALSE)>>)
    IN Write(writeHeader(makeHeader(hts, <<>>).head), b)

InitBool ==
    /\ rs \in {[base |-> 0, file |-> BoolFile(b)] : b \in BoolByteSeqs}
    /\ tensors \in {<<Tensor("a", Bool, <<Len(d)>>, d, FALSE)>> : d \in BoolData}
    /\ metadata = <<>>
    /\ w = EmptyFile /\ sres = None /\ rres = None
    /\ pos = 0 /\ st = None /\ last = None /\ eager = NoEager
    /\ vh = Idle /\ vres = Idle /\ lres = Idle

NextBool == EagerReadAllOp \/ SerializeOp \/ ReadAllOp

SpecBool == InitBool /\ [][NextBool]_vars

----------------------------------------------------------------------------
(* C21: the boolean codec                                                  *)

\* the bytes of the byte buffer of the stream read
StreamData == SubSeq(rs.file.rest, Uint64(rs.file.size) - rs.file.jsonLen + 1, Len(rs.file.rest))

\* C21: decoding a Bool tensor gives one element per byte, false for the
\* byte 0 and true for every other byte (0x01, 0xfe, 0xff); encoding a
\* []bool writes one byte per element, 0 for false and 1 for true, and no
\* other value.
C21_BoolCodec ==
    /\ eager.typed # None =>
          /\ eager.typed.kind = "ok"
          /\ Len(eager.typed.tensors[1].data) = Len(StreamData)
          /\ \A i \in 1..Len(StreamData) :
                eager.typed.tensors[1].data[i] = <<IF StreamData[i] = 0 THEN 0 ELSE 1>>
    /\ sres # None =>
          /\ sres.kind = "ok"
          /\ Len(WrittenData) = Len(tensors[1].data)
          /\ \A i \in 1..Len(WrittenData) :
                /\ WrittenData[i] \in {0, 1}
                /\ WrittenData[i] = 1 <=> tensors[1].data[i] = <<1>>
    /\ rres # None => rres.kind = "ok" /\ rres.tensors[1].data = tensors[1].data

\* the bytes 0x00, 0xfe, 0xff decoded as false, true, true, and the values
\* true, false, true encoded as 1, 0, 1
C21_Witness ==
    /\ StreamData = <<0, 254, 255>>
    /\ eager.typed # None /\ eager.typed.tensors[1].data = <<<<0>>, <<1>>, <<1>>>>
    /\ tensors[1].data = <<<<1>>, <<0>>, <<1>>>>
    /\ sres # None /\ WrittenData = <<1, 0, 1>>
----------------------------------------------------------------------------
(* The constructors: NewTensor (tensor.go) and NewTensorView (legacy API)  *)

ZeroTensor == Tensor("", 0, <<>>, <<>>, TRUE)

\* checkTypesAndGetDataLen / resolveDataLen: goType is the dtype whose Go
\* slice type the data has; a nil interface has length 0 whatever the dtype
checkTypesAndGetDataLen(dt, goType, data, nilData) ==
    IF ~DTypeValid(dt) THEN [err |-> "invalid_dtype", len |-> 0]
    ELSE IF nilData THEN [err |-> "", len |-> 0]
    ELSE IF goType # dt THEN [err |-> "type_mismatch", len |-> 0]
    ELSE [err |-> "", len |-> Len(data)]

\* NewTensor: the error kind ("" for none) and the Tensor returned
NewTensorResult(name, dt, shape, goType, data, nilData) ==
    LET dl == checkTypesAndGetDataLen(dt, goType, data, nilData)
        ss == checkedShapeSize(shape)
    IN IF dl.err # "" THEN [err |-> dl.err, t |-> ZeroTensor]
       ELSE IF ss.err THEN [err |-> "negative_shape", t |-> ZeroTensor]
       ELSE IF ss.size # dl.len THEN [err |-> "size_mismatch", t |-> ZeroTensor]
       ELSE [err |-> "", t |-> Tensor(name, dt, copyShape(shape), data, nilData)]

\* numElementsFromShape: 0 for the empty shape, else the wrapping product
numElementsFromShape(shape) ==
    LET RECURSIVE prod(_, _)
        prod(i, n) == IF i > Len(shape) THEN n ELSE prod(i + 1, (n * shape[i]) % WordMod)
    IN IF Len(shape) = 0 THEN 0 ELSE prod(2, shape[1])

ZeroView == View(0, <<>>, TRUE, <<>>)

\* NewTensorView over a legacy DType: DType.Size panics on a value that is
\* none of the package; the comparison is with the wrapping product
NewTensorView(dType, shape, data) ==
    IF dType >= Len(legacyDTypeToSize) THEN [err |-> "panic", view |-> ZeroView]
    ELSE IF Len(data) # (numElementsFromShape(shape) * LegacyDTypeSize(dType)) % WordMod
         THEN [err |-> "invalid_view", view |-> ZeroView]
         ELSE [err |-> "", view |-> View(dType, shape, FALSE, data)]

----------------------------------------------------------------------------
(* Shapes, dtypes, sizes and data handed to the validators and to the      *)
(* constructors                                                            *)

Quarter == 2^(WordBits - 2)

\* the empty shape, shapes with a 0, ordinary shapes, a negative entry, and
\* shapes whose product passes the word or the largest int
ConShapes ==
    {<<>>, <<0>>, <<1>>, <<2>>, <<2, 0>>, <<2, 2>>, <<-1>>,
     <<Quarter>>, <<Quarter, 2>>, <<Quarter, 4>>, <<Quarter + 1, 4>>, <<2 * Quarter, 2>>}

ConDTypes == {0, U8, I32}

\* byte sizes: the end of the byte range, and the length of a view's data
ConSizes == {0, 1, 2, 4, 8}

\* a header of the one tensor "a" with the byte range [0, n)
ConHeader(dt, shape, n) ==
    [Tensors |-> [k \in {"a"} |-> HTensor("a", dt, shape, [Begin |-> 0, End |-> n])],
     Metadata |-> NoMetadata, ByteBufferOffset |-> 16]

\* the data handed to NewTensor: a nil interface, or a slice of the Go type
\* of goType with elems elements
ConData ==
    {[goType |-> 0, elems |-> 0, nilData |-> TRUE]}
    \cup {[goType |-> g, elems |-> e, nilData |-> FALSE] : g \in {U8, I32}, e \in {0, 1, 2, 4}}

InitConstruct ==
    /\ vh \in {ConHeader(dt, s, n) : dt \in ConDTypes, s \in ConShapes, n \in ConSizes}
    /\ tensors \in ConData
    /\ vres = None /\ lres = None /\ sres = None /\ rres = None
    /\ metadata = Idle /\ w = Idle
    /\ rs = Idle /\ pos = 0 /\ st = Idle /\ last = Idle /\ eager = Idle

\* the tensor of the header handed over
Con == vh.Tensors["a"]

\* t, err := NewTensor("a", dType, shape, data)
NewTensorOp ==
    /\ rres = None
    /\ IntRepresentable(vh)
    /\ rres' = NewTensorResult("a", Con.DType, Con.Shape, tensors.goType,
                               [i \in 1..tensors.elems |-> <<0>>], tensors.nilData)
    /\ UNCHANGED <<vh, vres, lres, tensors, metadata, w, sres, rs, pos, st, last, eager>>

\* the legacy DType of the same tag (13 is no DType of the legacy package)
LegacyDTypeOf(dt) == IF DTypeValid(dt) THEN stringToDType[dTypeToString[dt]] ELSE 13

\* tv, err := NewTensorView(dType, shape, data) with data of End bytes
NewTensorViewOp ==
    /\ sres = None
    /\ \A i \in 1..Len(Con.Shape) : Con.Shape[i] >= 0
    /\ sres' = NewTensorView(LegacyDTypeOf(Con.DType), Con.Shape, [i \in 1..Con.End |-> DataByte(i)])
    /\ UNCHANGED <<vh, vres, lres, tensors, metadata, w, rres, rs, pos, st, last, eager>>

NextConstruct == HeaderValidateOp \/ LegacyValidateOp \/ NewTensorOp \/ NewTensorViewOp

SpecConstruct == InitConstruct /\ [][NextConstruct]_vars
----------------------------------------------------------------------------
(* C22: the empty shape and shapes with a 0                                *)

HasZero(shape) == \E i \in 1..Len(shape) : shape[i] = 0

\* the number of elements the shape denotes, for the two cases
Denoted(shape) == IF shape = <<>> THEN 1 ELSE 0

\* the number of elements NewTensor was given
GivenElems == IF tensors.nilData THEN 0 ELSE tensors.elems

\* C22: for the empty shape (a scalar: one element) and for a shape with a
\* 0 entry (no element, no byte), Header.Validate, Metadata.validate,
\* NewTensor and NewTensorView accept exactly the byte range, or the data,
\* of that number of elements.
C22_ScalarAndEmpty ==
    (DTypeValid(Con.DType) /\ (Con.Shape = <<>> \/ HasZero(Con.Shape))) =>
        /\ vres # None => (vres.kind = "ok" <=> Con.End = Denoted(Con.Shape) * DTypeSize(Con.DType))
        /\ lres # None => (lres.kind = "ok" <=> Con.End = Denoted(Con.Shape) * DTypeSize(Con.DType))
        /\ (rres # None /\ (tensors.nilData \/ tensors.goType = Con.DType)) =>
              (rres.err = "" <=> GivenElems = Denoted(Con.Shape))
        /\ sres # None => (sres.err = "" <=> Con.End = Denoted(Con.Shape) * DTypeSize(Con.DType))

\* the same without NewTensorView
C22_Validators ==
    (DTypeValid(Con.DType) /\ (Con.Shape = <<>> \/ HasZero(Con.Shape))) =>
        /\ vres # None => (vres.kind = "ok" <=> Con.End = Denoted(Con.Shape) * DTypeSize(Con.DType))
        /\ lres # None => (lres.kind = "ok" <=> Con.End = Denoted(Con.Shape) * DTypeSize(Con.DType))
        /\ (rres # None /\ (tensors.nilData \/ tensors.goType = Con.DType)) =>
              (rres.err = "" <=> GivenElems = Denoted(Con.Shape))

\* NewTensorView takes the empty shape for no element, and a shape with a
\* 0 for no element
C22_ViewConflates ==
    (DTypeValid(Con.DType) /\ (Con.Shape = <<>> \/ HasZero(Con.Shape)) /\ sres # None) =>
        (sres.err = "" <=> Con.End = 0)

\* NewTensorView has refused the 4 bytes of an I32 scalar, which
\* Header.Validate has accepted
C22_Witness ==
    /\ Con.Shape = <<>> /\ Con.DType = I32 /\ Con.End = 4
    /\ sres # None /\ sres.err = "invalid_view"
    /\ vres # None /\ vres.kind = "ok"

\* NewTensorView has accepted the empty shape over no data
C22_WitnessEmpty ==
    /\ Con.Shape = <<>> /\ Con.DType = I32 /\ Con.End = 0
    /\ sres # None /\ sres.err = "" /\ sres.view.Data = <<>>
----------------------------------------------------------------------------
(* C23: NewTensor                                                          *)

\* the four conditions under which NewTensor is to return a Tensor
NewTensorValid ==
    /\ DTypeValid(Con.DType)
    /\ tensors.nilData \/ tensors.goType = Con.DType
    /\ \A i \in 1..Len(Con.Shape) : Con.Shape[i] >= 0
    /\ GivenElems = TrueProduct(Con.Shape)

\* C23: NewTensor returns a Tensor only if the dtype is valid, the Go type
\* of the data is the one of the dtype, no shape entry is negative and the
\* number of data elements is the product of the shape entries (1 for the
\* empty shape, 0 elements for nil data), and does return it then; in
\* every other case it returns an error and the zero Tensor.
C23_NewTensor ==
    rres # None =>
        /\ rres.err = "" <=> NewTensorValid
        /\ rres.err = "" => rres.t = Tensor("a", Con.DType, Con.Shape, [i \in 1..tensors.elems |-> <<0>>],
                                            tensors.nilData)
        /\ rres.err # "" => rres.t = ZeroTensor

\* the same for shapes whose product is an int
C23_WithinInt ==
    (rres # None /\ TrueProduct(Con.Shape) <= MaxInt) =>
        /\ rres.err = "" <=> NewTensorValid
        /\ rres.err # "" => rres.t = ZeroTensor

\* a shape whose product is one more than the largest unsigned word,
\* accepted over nil data
C23_Witness ==
    /\ Con.Shape = <<Quarter, 4>> /\ Con.DType = U8 /\ tensors.nilData
    /\ rres # None /\ rres.err = "" /\ rres.t.shape = <<Quarter, 4>>

\* the errors of NewTensor have been met with the zero Tensor
C23_WitnessMismatch ==
    /\ rres # None /\ rres.err = "type_mismatch" /\ rres.t = ZeroTensor /\ Con.Shape = <<2>>
----------------------------------------------------------------------------
(* C24: the order of the checks of Header.Validate                         *)

\* the begin the i-th descriptor of a sorted sequence is expected to have
ExpectedBegin(ts, i) == IF i = 1 THEN 0 ELSE ts[i - 1].End

\* the descriptors of ts at which the sequence is not contiguous
Gaps(ts) == {i \in 1..Len(ts) : ts[i].Begin # ExpectedBegin(ts, i)}

\* the sorted sequence of the header is not contiguous
NotContiguous == \A ts \in SortByDataOffsets(vh.Tensors) : Gaps(ts) # {}

NamesMismatch == \E k \in DOMAIN vh.Tensors : vh.Tensors[k].Name # k

\* the kinds of the errors of the size check of one descriptor
SizeKinds ==
    {"end_before_begin", "invalid_dtype", "negative_shape", "elements_overflow", "bytesize_overflow",
     "bytesize_too_large", "size_mismatch"}

\* a descriptor with a defect of its own sorted before every gap
DefectBeforeGap ==
    \A ts \in SortByDataOffsets(vh.Tensors) :
        \E i \in 1..Len(ts) : (\A g \in Gaps(ts) : i < g) /\ validateTensor(ts[i], ts[i].Begin).kind # "ok"

\* C24: Header.Validate checks the buffer-start offset, then the names of
\* every descriptor, then the contiguity of the whole sorted sequence, then
\* the size of each descriptor: a header with a names mismatch and any
\* other error of its tensors gets the names-mismatch error, and a header
\* that is not contiguous gets the offset-mismatch error even when a
\* descriptor sorted before the gap has a size mismatch.
C24_CheckOrder ==
    vres # None =>
        /\ vh.ByteBufferOffset < 0 => vres.kind = "negative_offset"
        /\ (vh.ByteBufferOffset >= 0 /\ NamesMismatch) => vres.kind = "names_mismatch"
        /\ (vh.ByteBufferOffset >= 0 /\ ~NamesMismatch /\ NotContiguous) => vres.kind = "begin_mismatch"
        /\ (vh.ByteBufferOffset >= 0 /\ ~NamesMismatch /\ ~NotContiguous) =>
              vres.kind \in SizeKinds \cup {"ok"}

\* the order of the code: offset, names, then one walk of the sorted
\* sequence that checks, descriptor by descriptor, the begin and then the
\* size; the error is the one of the first descriptor that has any
C24_WalkOrder ==
    vres # None =>
        /\ vh.ByteBufferOffset < 0 => vres.kind = "negative_offset"
        /\ (vh.ByteBufferOffset >= 0 /\ NamesMismatch) => vres.kind = "names_mismatch"
        /\ (vh.ByteBufferOffset >= 0 /\ ~NamesMismatch /\ NotContiguous /\ DefectBeforeGap) =>
              vres.kind \in SizeKinds
        /\ (vh.ByteBufferOffset >= 0 /\ ~NamesMismatch /\ NotContiguous /\ vres.kind \in SizeKinds) =>
              \E ts \in SortByDataOffsets(vh.Tensors) :
                  \E i \in 1..Len(ts) : ts[i].Name = vres.tensor /\ \A g \in Gaps(ts) : i < g

\* a size mismatch at the first descriptor and a gap at the second: the
\* size error of the first is the one returned
C24_Witness ==
    /\ vh.ByteBufferOffset >= 0 /\ ~NamesMismatch /\ DOMAIN vh.Tensors = {"a", "b"}
    /\ vh.Tensors["a"].Begin = 0 /\ vh.Tensors["a"].End = 1 /\ vh.Tensors["a"].Shape = <<2>>
    /\ vh.Tensors["a"].DType = U8
    /\ vh.Tensors["b"].Begin = 2
    /\ vres # None /\ vres.kind = "size_mismatch" /\ vres.tensor = "a"

\* a names mismatch together with a gap: the names error is returned
C24_WitnessNames ==
    /\ vh.ByteBufferOffset >= 0 /\ NamesMismatch /\ NotContiguous
    /\ vres # None /\ vres.kind = "names_mismatch"
----------------------------------------------------------------------------
(* C25: Header.Validate leaves the header as it was                        *)

C25_WitnessFailed ==
    /\ vres # None /\ vres.kind = "size_mismatch" /\ vres.tensor = "a"
    /\ DOMAIN vh.Tensors = {"a", "b"} /\ vh.Tensors["b"].Begin = 0 /\ vh.Tensors["a"].Begin = 2
----------------------------------------------------------------------------
(* C26: header.Read does not validate                                      *)

\* the byte size the shape and the dtype of the entry k give
EntryBytes(k) ==
    TrueProduct(rs.file.json[k]["shape"].arr) * dTypeToSize[ParseTag(rs.file.json[k]["dtype"].str)]

\* the layout the object describes is not a valid one
BeginAfterEnd == \E k \in TensorObjects : RangeOf(k)[1] > RangeOf(k)[2]
NotFromZero == TensorObjects # {} /\ \A k \in TensorObjects : RangeOf(k)[1] # 0
Overlapping ==
    \E k, l \in TensorObjects : k # l /\ RangeOf(k)[1] < RangeOf(l)[2] /\ RangeOf(l)[1] < RangeOf(k)[2]
SizeDisagrees == \E k \in TensorObjects : RangeOf(k)[2] - RangeOf(k)[1] # EntryBytes(k)

Defective == BeginAfterEnd \/ NotFromZero \/ Overlapping \/ SizeDisagrees

\* the header bytes decode into a Header
Decodable == HeaderBytesDecoded /\ PrefixN <= MaxInt - 8 /\ WellFormed

\* C26: header.Read returns a header whose data_offsets have begin > end,
\* do not start at 0, overlap, or disagree with shape and dtype, as it is
\* written, with ByteBufferOffset = 8 + N; ReadAll, ReadAllRaw and NewLazy
\* reject it by Header.Validate, having read the 8 + N bytes of the header
\* and no byte of tensor data.
C26_ReadDoesNotValidate ==
    (Decodable /\ Defective) =>
        /\ vres # None =>
              /\ vres.err = "" /\ vres.header.ByteBufferOffset = 8 + PrefixN
              /\ DOMAIN vres.header.Tensors = TensorObjects
              /\ \A k \in TensorObjects :
                    /\ vres.header.Tensors[k].Begin = RangeOf(k)[1]
                    /\ vres.header.Tensors[k].End = RangeOf(k)[2]
                    /\ vres.header.Tensors[k].Shape = rs.file.json[k]["shape"].arr
              /\ \A v \in HeaderValidate(vres.header) : v.kind # "ok"
        /\ eager.typed # None =>
              eager.typed.kind = "invalid_header" /\ eager.typed.read = 8 + PrefixN /\ eager.typed.tensors = <<>>
        /\ eager.raw # None =>
              eager.raw.kind = "invalid_header" /\ eager.raw.read = 8 + PrefixN /\ eager.raw.tensors = <<>>
        /\ st # None => st.kind = "error" /\ st.err = "invalid_header" /\ pos = 8 + PrefixN

\* overlapping ranges: returned by header.Read, rejected by the readers
C26_Witness ==
    /\ Decodable /\ Overlapping /\ ~BeginAfterEnd /\ ~SizeDisagrees
    /\ vres # None /\ vres.err = "" /\ vres.header.Tensors["b"].Begin = 1
    /\ eager.typed # None /\ eager.typed.kind = "invalid_header"
    /\ eager.raw # None /\ eager.raw.kind = "invalid_header"
    /\ st # None /\ st.kind = "error"

\* begin after end
C26_WitnessBeginAfterEnd ==
    /\ Decodable /\ BeginAfterEnd /\ vres # None /\ vres.err = "" /\ vres.header.Tensors["a"].Begin = 2
    /\ vres.header.Tensors["a"].End = 0
----------------------------------------------------------------------------
(* Two goroutines that call ReadData on handles of one LazyST, without     *)
(* synchronization.  A call is two steps on the shared io.ReadSeeker: the  *)
(* Seek of seekTensorData, then the io.ReadFull; last holds the two calls. *)

Procs == {1, 2}

\* a call not yet made
NoCall == [pc |-> "idle", name |-> "", kind |-> "", data |-> <<>>, disturbed |-> FALSE]

\* the streams: whole files of at least two tensors, at an ordinary position
RaceStreams ==
    {[base |-> p, file |-> LazyFile(ts, <<>>)] : p \in {0, MaxBase}, ts \in {l \in LazyLists : Len(l) >= 2}}

\* the LazyST NewLazy(rs, 0) returns, without the cursor
OpenedST(s) ==
    LET l == CHOOSE x \in NewLazy(s, s.base, 0) : TRUE
    IN [kind |-> l.kind, err |-> l.err, tensors |-> l.tensors, metadata |-> l.metadata, dataOffset |-> l.dataOffset]

InitRace ==
    /\ rs \in RaceStreams
    /\ st = OpenedST(rs)
    /\ pos = rs.base + 8 + Uint64(rs.file.size)
    /\ last = [p \in Procs |-> NoCall]
    /\ eager = NoEager
    /\ vh = Idle /\ vres = Idle /\ lres = Idle
    /\ tensors = Idle /\ metadata = Idle /\ w = Idle /\ sres = Idle /\ rres = Idle

\* a step of p moves the cursor under the call of the other goroutine, if
\* that call stands between its Seek and its read
Disturb(p, calls) ==
    [q \in Procs |-> IF q # p /\ calls[q].pc = "sought" THEN [calls[q] EXCEPT !.disturbed = TRUE] ELSE calls[q]]

\* goroutine p calls lt.ReadData() on the handle of some tensor: the size
\* is computed and, unless it is 0, seekTensorData moves the cursor
RaceSeekOp(p) ==
    /\ last[p].pc = "idle"
    /\ \E name \in DOMAIN st.tensors :
          LET lt == LazyTensor(st, name)
              sk == seekTensorData(lt, pos)
          IN IF lt.t.End - lt.t.Begin = 0
             THEN /\ last' = [last EXCEPT ![p] = [@ EXCEPT !.pc = "done", !.name = name, !.kind = "ok"]]
                  /\ pos' = pos
             ELSE IF sk.err # ""
                  THEN /\ last' = [last EXCEPT ![p] = [@ EXCEPT !.pc = "done", !.name = name, !.kind = sk.err]]
                       /\ pos' = pos
                  ELSE /\ last' = [Disturb(p, last) EXCEPT ![p] = [@ EXCEPT !.pc = "sought", !.name = name]]
                       /\ pos' = sk.cursor
    /\ UNCHANGED <<vh, vres, lres, tensors, metadata, w, sres, rres, rs, st, eager>>

\* goroutine p goes on: io.ReadFull(lt.rs, data) from where the cursor is
RaceReadOp(p) ==
    /\ last[p].pc = "sought"
    /\ LET t == st.tensors[last[p].name]
           r == ReadFull(rs.file, pos - rs.base, t.End - t.Begin)
       IN /\ last' = [Disturb(p, last) EXCEPT ![p] = [@ EXCEPT !.pc = "done",
                                                             !.kind = IF r.ok THEN "ok" ELSE "read_failed",
                                                             !.data = IF r.ok THEN r.bytes ELSE <<>>]]
          /\ pos' = rs.base + r.pos
    /\ UNCHANGED <<vh, vres, lres, tensors, metadata, w, sres, rres, rs, st, eager>>

NextRace == \E p \in Procs : RaceSeekOp(p) \/ RaceReadOp(p)

SpecRace == InitRace /\ [][NextRace]_vars

----------------------------------------------------------------------------
(* C27: reads that run at the same time                                    *)

\* C27: a ReadData whose Seek and read are not separated by a step of the
\* other goroutine (the reads run one after the other) returns the bytes
\* [begin, end) of its own tensor; a read that returned other bytes, or
\* failed, had the other goroutine move the cursor in between.
C27_SequentialOwnBytes ==
    \A p \in Procs :
        last[p].pc = "done" =>
            \/ last[p].disturbed
            \/ last[p].kind = "ok" /\ last[p].data = OwnBytes(st.tensors[last[p].name])

\* the race: a ReadData returned, without error, bytes that are not the
\* range of its tensor
C27_Witness ==
    \E p \in Procs :
        /\ last[p].pc = "done" /\ last[p].kind = "ok" /\ last[p].disturbed
        /\ last[p].data # OwnBytes(st.tensors[last[p].name])
        /\ Len(last[p].data) = st.tensors[last[p].name].End - st.tensors[last[p].name].Begin

\* the two reads ran one after the other and each returned its own bytes
C27_WitnessSequential ==
    /\ \A p \in Procs : last[p].pc = "done" /\ ~last[p].disturbed /\ last[p].data # <<>>
    /\ last[1].name # last[2].name
----------------------------------------------------------------------------
(* C28 *)

\* the headers readValidHeader accepts for the stream
ValidHeads == {h.head : h \in {x \in readValidHeader(rs.file, 0) : x.err = ""}}

\* the length of the byte buffer a header describes
TotalOf(tm) ==
    LET ends == {tm[k].End : k \in DOMAIN tm} \cup {0}
    IN CHOOSE m \in ends : \A x \in ends : x <= m

\* the result e of an eager read is the single pass over the stream: the
\* tensors come by ascending byte range, the data of each are the stream
\* bytes of its range, and 8 + N + total bytes were taken from the reader
SinglePass(e, raw) ==
    \E h \in ValidHeads :
        /\ Len(e.tensors) = Cardinality(DOMAIN h.Tensors)
        /\ {e.tensors[i].name : i \in 1..Len(e.tensors)} = DOMAIN h.Tensors
        /\ \A i \in 1..Len(e.tensors) :
              LET t == h.Tensors[e.tensors[i].name]
              IN /\ e.tensors[i].data = IF raw THEN OwnBytes(t) ELSE ElementsOf(t.DType, OwnBytes(t))
                 /\ i < Len(e.tensors) =>
                       /\ t.Begin <= h.Tensors[e.tensors[i + 1].name].Begin
                       /\ t.End <= h.Tensors[e.tensors[i + 1].name].End
        /\ e.read = 8 + PrefixN + TotalOf(h.Tensors)

\* the stream holds the 8 + N bytes its length prefix announces
HoldsHeader == FileLen(rs.file) >= 8 + PrefixN

\* C28: ReadAll and ReadAllRaw that succeed on a stream holding its whole
\* header read the tensors in ascending byte-range order, each decode takes
\* exactly end - begin bytes, so that the data of every tensor are the
\* stream bytes of its own range (counted from the end of the 8 + N bytes of
\* the header, padding included), and the reader is left 8 + N + total
\* bytes after its start.
C28_SinglePass ==
    HoldsHeader =>
        /\ (eager.typed # None /\ eager.typed.kind = "ok") => SinglePass(eager.typed, FALSE)
        /\ (eager.raw # None /\ eager.raw.kind = "ok") => SinglePass(eager.raw, TRUE)

\* C28: a stream of three tensors with a padded header was read by ReadAll
\* and by ReadAllRaw
C28_Witness ==
    /\ eager.typed # None /\ eager.typed.kind = "ok" /\ Len(eager.typed.tensors) = 3
    /\ eager.raw # None /\ eager.raw.kind = "ok"
    /\ eager.typed.read > 8 + PrefixN
    /\ PrefixN > rs.file.jsonLen
----------------------------------------------------------------------------
(* C29 *)

\* the number of data bytes that follow the header in the buffer
DataLen == FileLen(rs.file) - 8 - PrefixN

\* C29: whenever Deserialize succeeds, every byte range of the metadata lies
\* inside the data (begin <= end <= len(buffer) - 8 - N) and the end of the
\* last range plus 8 + N is the length of the buffer as a true sum, not
\* only modulo the word; SafeTensors.Tensor and SafeTensors.Tensors then
\* never slice out of bounds, and a view holds the bytes of its range.
C29_InBounds ==
    (lres # None /\ lres.err = "") =>
        /\ DataLen >= 0
        /\ \A i \in 1..Len(lres.m.tensors) :
              /\ lres.m.tensors[i].DataOffsets[1] <= lres.m.tensors[i].DataOffsets[2]
              /\ lres.m.tensors[i].DataOffsets[2] <= DataLen
        /\ MetadataValidate(lres.m).expected + 8 + PrefixN = FileLen(rs.file)
        /\ sres # Idle =>
              /\ ~sres.panic
              /\ sres.found =>
                    LET off == lres.m.tensors[lres.m.indexMap[sres.name] + 1].DataOffsets
                    IN sres.data = StreamBytes(BufferStart + off[1], off[2] - off[1])
        /\ rres # Idle => ~rres.panic /\ Len(rres.data) = Len(lres.m.tensors)

\* C29: Deserialize succeeded on a buffer of two tensors, and the view of
\* the second one was taken
C29_Witness ==
    /\ lres # None /\ lres.err = "" /\ Len(lres.m.tensors) = 2
    /\ sres # Idle /\ sres.found /\ sres.name = "b" /\ Len(sres.data) = 2
    /\ rres # Idle

\* C29: the end of the data plus 8 + N equals the length of the buffer only
\* after wrapping around the word, and Deserialize fails
C29_WitnessWrapped ==
    /\ lres # None /\ lres.err = "metadata_incomplete_buffer"
    /\ rs.file.json = HugeObject
    /\ FileLen(rs.file) >= 8 + PrefixN
    /\ (DataEnd(HugeObject) + 8 + PrefixN) % WordMod = PrefixN
----------------------------------------------------------------------------
(* C30: NewTensorView and the product of the shape                         *)

\* the byte size of the view as a mathematical integer
ViewBytes == TrueProduct(Con.Shape) * DTypeSize(Con.DType)

\* NewTensorView was called with a dtype of the package and a shape that is
\* not empty
ViewCalled == sres # None /\ DTypeValid(Con.DType) /\ Con.Shape # <<>>

\* C30: NewTensorView returns a view only if len(data) is the true product
\* of the shape entries times the dtype size; a shape whose product, or
\* product times dtype size, passes the word is rejected.
C30_TrueProduct ==
    ViewCalled =>
        /\ sres.err = "" => Con.End = ViewBytes
        /\ ViewBytes > MaxUint => sres.err # ""

\* as long as the byte size fits the word, a view is returned exactly for
\* data of that size
C30_WithinWord ==
    (ViewCalled /\ ViewBytes <= MaxUint) => (sres.err = "" <=> Con.End = ViewBytes)

\* a byte size that passes the word is matched by data of the wrapped size
C30_Wrapped ==
    (ViewCalled /\ ViewBytes > MaxUint) => (sres.err = "" <=> Con.End = ViewBytes % WordMod)

\* NewTensorView has returned a view of 4 bytes for a U8 shape of more
\* elements than the word can count
C30_Witness ==
    /\ ViewCalled /\ Con.DType = U8 /\ Con.Shape = <<Quarter + 1, 4>> /\ Con.End = 4
    /\ sres.err = "" /\ Len(sres.view.Data) = 4

\* the product fits the word, the product times the dtype size does not,
\* and a view over no data is returned
C30_WitnessDTypeSize ==
    /\ ViewCalled /\ Con.DType = I32 /\ Con.Shape = <<Quarter>> /\ Con.End = 0
    /\ sres.err = ""

====
